---- MODULE Spec2Model ----
(***************************************************************************)
(* Model of the attention monitors of the camhack add-on:                  *)
(*   - EyeMonitor    (anki_addon/vision/eye_monitor.py)                    *)
(*   - WindowMonitor (anki_addon/window_monitor/__init__.py)               *)
(* Each monitor keeps an ordered subscriber list and publishes debounced   *)
(* state changes to it.                                                    *)
(***************************************************************************)
EXTENDS Integers, Sequences, FiniteSets, TLC

(***************************************************************************)
(* Bounds of the model                                                     *)
(***************************************************************************)
\* wall-clock instants 0..MaxTime (seconds)
MaxTime == 2
\* verdicts the reader forwards to on_eyes_state_change
MaxVerdicts == 2
\* calls of EyeMonitor.start(), each of which creates one reader thread
MaxThreads == 1
\* calls of on_eyes_state_change made by the owner of the monitor
MaxCalls == 5
\* calls of WindowMonitor.start(), each of which creates one QTimer
MaxWinStarts == 1
\* transitions the window monitor publishes
MaxEvents == 2
\* calls of EyeMonitor.start() where the owner restarts the monitor
MaxReaders == 2
\* calls of WindowMonitor.start() where the owner restarts the monitor
MaxSessions == 2
\* image windows that stay on the screen after the opener forgot them
MaxOrphans == 5

\* Python's None, and a value that is not None
None == <<>>
Some(x) == <<x>>
Val(o) == o[1]

(***************************************************************************)
(* Strings: str.lower() and str.strip() as the reader applies them         *)
(***************************************************************************)
UpperChars == <<"A","B","C","D","E","F","G","H","I","J","K","L","M",
                "N","O","P","Q","R","S","T","U","V","W","X","Y","Z">>
LowerChars == <<"a","b","c","d","e","f","g","h","i","j","k","l","m",
                "n","o","p","q","r","s","t","u","v","w","x","y","z">>

LowerChar(c) ==
    IF \E i \in 1..26 : UpperChars[i] = c
    THEN LowerChars[CHOOSE i \in 1..26 : UpperChars[i] = c]
    ELSE c

RECURSIVE LowerFrom(_, _)
LowerFrom(s, i) ==
    IF i > Len(s) THEN ""
    ELSE LowerChar(SubSeq(s, i, i)) \o LowerFrom(s, i + 1)

Lower(s) == LowerFrom(s, 1)

IsSpace(c) == c \in {" ", "\n", "\t", "\r"}

\* the part of s between the first and the last position of `keep`
Between(s, keep) ==
    IF keep = {} THEN ""
    ELSE SubSeq(s, CHOOSE i \in keep : \A j \in keep : i <= j,
                   CHOOSE i \in keep : \A j \in keep : j <= i)

\* str.strip(): from the first to the last character that is no space
Strip(s) == Between(s, {i \in 1..Len(s) : ~IsSpace(SubSeq(s, i, i))})

\* Python's `kw in s` for strings
Contains(s, kw) ==
    \E i \in 1..(Len(s) - Len(kw) + 1) : SubSeq(s, i, i + Len(kw) - 1) = kw

(***************************************************************************)
(* Subscribers                                                             *)
(***************************************************************************)
Callbacks == {"A", "B", "C"}
\* the callbacks the owner subscribes and unsubscribes
BusCallbacks == {"A", "B"}

VARIABLES
    \* ---- EyeMonitor fields ----
    threshold_seconds,
    addon_dir,
    eye_subscribers,
    eyes_closed_start_time,
    is_monitoring,
    current_state,
    vision_process,
    reading_buffer,
    last_emitted_state,
    \* ---- environment of the EyeMonitor ----
    threads,        \* reader threads created by start(): [pc, proc]
    procs,          \* worker processes created by Popen: status
    now,            \* time.time()
    raising,        \* the callbacks that raise when invoked
    monitors,       \* the monitor objects the owner has constructed
    classified,     \* the last direct call of a classifier and its result
    session,        \* the last (up to five) valid samples ingested since
                    \* the construction or the last stop()
    \* ---- observation of the EyeMonitor ----
    eye_calls,      \* callback invocations <<callback, eyes_closed>>
    eye_published,  \* arguments of _notify_subscribers, in order
    verdicts,       \* arguments the reader passed to on_eyes_state_change
    recent,         \* the last (up to five) valid samples ingested
    all_false,      \* every valid sample of the session was 'false'
    last_op,        \* the operation that produced the current state
    stop_raised,    \* the last stop() raised
    series_start,   \* time of the first True call of the running series
    series_last,    \* time of the latest True call of the running series
    series_pubs,    \* True publishes during the running series
    short_reset,    \* a False call ended a series shorter than the threshold
    ncalls,         \* direct calls of on_eyes_state_change made
    last_arg,       \* the callback given to the last subscribe/unsubscribe
    \* ---- ImageOpener fields ----
    image_windows,  \* _image_windows: isVisible() of each tracked window
    open_timer,     \* _open_timer is not None
    randomise_timer,\* _randomise_timer is not None
    \* ---- observation of the ImageOpener ----
    orphans,        \* windows shown and no longer tracked
    opened,         \* windows appended by the last open_images
    \* ---- AFKTimer fields ----
    afk_threshold,
    image_count,
    last_activity,
    was_afk,
    images_spawned,
    afk_start_time,
    last_spawn_time,
    \* ---- environment and observation of the AFKTimer ----
    afk_pc,          \* the statement of run() that the main thread is at
    afk_idle,        \* the local variable idle of run()
    spawner_windows, \* len(_image_windows) of image_spawner.py
    key_handled,     \* on_key has run at least once
    \* ---- WindowMonitor fields ----
    win_subscribers,
    timer,
    previous_state,
    previous_window_handle,
    previous_tab,
    \* ---- environment of the WindowMonitor ----
    running,        \* the QTimers that are started
    ntimers,        \* the QTimers created so far
    \* ---- observation of the WindowMonitor ----
    win_published,  \* arguments of _notify_subscribers, in order
    win_calls,      \* callback invocations <<callback, prev, curr, title>>
    win_last_eval,  \* label of the latest re-classification; was it published
    win_evaluated,  \* the last tick re-classified the window
    win_seen        \* what the provider returned to the last start or tick

eye_fields == <<threshold_seconds, addon_dir, eye_subscribers,
                eyes_closed_start_time, is_monitoring, current_state, vision_process, reading_buffer,
                last_emitted_state>>
opener_vars == <<image_windows, open_timer, randomise_timer, orphans, opened>>
afk_vars == <<afk_threshold, image_count, last_activity, was_afk,
              images_spawned, afk_start_time, last_spawn_time, afk_pc,
              afk_idle, spawner_windows, key_handled>>
apps == <<opener_vars, afk_vars>>
bystanders == <<raising, monitors, classified, apps>>
owner == <<bystanders, session>>
eye_env == <<threads, procs, now, owner>>
eye_obs == <<eye_calls, eye_published, verdicts, recent, all_false,
             last_op, stop_raised, series_start, series_last, series_pubs,
             short_reset, ncalls>>

\* everything of the EyeMonitor but last_op
eye_but_op == <<eye_fields, eye_env, eye_calls, eye_published, verdicts,
                recent, all_false, stop_raised, series_start, series_last,
                series_pubs, short_reset, ncalls>>

win_state == <<win_subscribers, timer, previous_state,
               previous_window_handle, previous_tab, running, ntimers>>
win_obs == <<win_published, win_calls, win_last_eval, win_evaluated, win_seen>>
win_vars == <<win_state, win_obs, last_arg>>

vars == <<eye_fields, eye_env, eye_obs, win_vars>>


(***************************************************************************)
(* _notify_subscribers: the loop over the subscriber list.  Every callback *)
(* is invoked inside its own try/except Exception.                         *)
(* Result: the callbacks invoked, in order, and whether an exception       *)
(* escaped the loop.                                                       *)
(***************************************************************************)
\* a loop whose callbacks are invoked without try/except
notify_no_catch == FALSE

\* `except Exception` around each callback invocation
notify_catches == TRUE

RECURSIVE notify_from(_, _, _)
notify_from(subs, i, raisers) ==
    IF i > Len(subs) THEN [invoked |-> <<>>, escaped |-> FALSE]
    ELSE IF subs[i] \in raisers /\ ~notify_catches
         THEN [invoked |-> <<subs[i]>>, escaped |-> TRUE]
         ELSE LET rest == notify_from(subs, i + 1, raisers)
              IN  [invoked |-> <<subs[i]>> \o rest.invoked,
                   escaped |-> rest.escaped]

notify_subscribers(subs, raisers) == notify_from(subs, 1, raisers)

\* a registry that appends without looking
subscribe_dup(subs, cb) == Append(subs, cb)

\* subscribe(callback): append unless already present
subscribe(subs, cb) ==
    IF \E i \in 1..Len(subs) : subs[i] = cb THEN subs ELSE Append(subs, cb)

\* list.remove(x): drop the first occurrence
list_remove(subs, cb) ==
    LET k == CHOOSE i \in 1..Len(subs) :
                 subs[i] = cb /\ \A j \in 1..(i - 1) : subs[j] # cb
    IN  SubSeq(subs, 1, k - 1) \o SubSeq(subs, k + 1, Len(subs))

\* unsubscribe(callback): remove if present
unsubscribe(subs, cb) ==
    IF \E i \in 1..Len(subs) : subs[i] = cb THEN list_remove(subs, cb) ELSE subs

(***************************************************************************)
(* EyeMonitor.on_eyes_state_change(eyes_closed) at time `t`.               *)
(* Result: the new closure timer, the new _current_state and the value     *)
(* published to the subscribers (None when nothing is published).          *)
(***************************************************************************)
\* a monitor that notifies on every sample past the threshold
closed_notify_always(cur) == TRUE

\* the guard `if not self._current_state` before the True notification
closed_notify_guard(cur) == ~cur

\* a monitor whose False call leaves the closure timer running
on_eyes_no_reset(eyes_closed, t) ==
    IF eyes_closed
    THEN IF eyes_closed_start_time = None
         THEN [start |-> Some(t), cur |-> current_state, pub |-> None]
         ELSE IF t - Val(eyes_closed_start_time) >= threshold_seconds
                 /\ closed_notify_guard(current_state)
              THEN [start |-> eyes_closed_start_time, cur |-> TRUE,
                    pub |-> Some(TRUE)]
              ELSE [start |-> eyes_closed_start_time, cur |-> current_state,
                    pub |-> None]
    ELSE IF current_state
         THEN [start |-> eyes_closed_start_time, cur |-> FALSE,
               pub |-> Some(FALSE)]
         ELSE [start |-> eyes_closed_start_time, cur |-> current_state,
               pub |-> None]

on_eyes_state_change(eyes_closed, t) ==
    IF eyes_closed
    THEN IF eyes_closed_start_time = None
         THEN [start |-> Some(t), cur |-> current_state, pub |-> None]
         ELSE IF t - Val(eyes_closed_start_time) >= threshold_seconds
                 /\ closed_notify_guard(current_state)
              THEN [start |-> eyes_closed_start_time, cur |-> TRUE,
                    pub |-> Some(TRUE)]
              ELSE [start |-> eyes_closed_start_time, cur |-> current_state,
                    pub |-> None]
    ELSE IF current_state
         THEN [start |-> None, cur |-> FALSE, pub |-> Some(FALSE)]
         ELSE [start |-> None, cur |-> current_state, pub |-> None]

\* the callback invocations of one publish
CallsOf(r, v) == [i \in 1..Len(r.invoked) |-> <<r.invoked[i], v>>]

\* the effect of on_eyes_state_change on the monitor and on what is observed
ApplyEyes(res) ==
    /\ eyes_closed_start_time' = res.start
    /\ current_state' = res.cur
    /\ IF res.pub = None
       THEN UNCHANGED <<eye_calls, eye_published>>
       ELSE /\ eye_published' = Append(eye_published, Val(res.pub))
            /\ eye_calls' = eye_calls \o
                 CallsOf(notify_subscribers(eye_subscribers, raising),
                         Val(res.pub))

\* an exception escaped on_eyes_state_change
EyesEscaped(res) ==
    res.pub # None /\ notify_subscribers(eye_subscribers, raising).escaped

(***************************************************************************)
(* The reading buffer: deque(maxlen=5)                                     *)
(***************************************************************************)
BufferLen == 5

deque_append(buf, x) ==
    IF Len(buf) = BufferLen THEN Append(Tail(buf), x) ELSE Append(buf, x)

\* a reader that takes one 'false' (one 'true') for unanimity
AnyFalse(buf) == \E i \in 1..Len(buf) : ~buf[i]
AnyTrue(buf) == \E i \in 1..Len(buf) : buf[i]

\* all(not reading for reading in buffer), all(reading for reading in buffer)
AllFalse(buf) == \A i \in 1..Len(buf) : ~buf[i]
AllTrue(buf) == \A i \in 1..Len(buf) : buf[i]

\* the lines the worker writes: print(bool) and its error message, and
\* other spellings the reader accepts or rejects
RawLines == {"True\n", "False\n", "true", " false \n", "TRUE\n",
             "Error: eye\n"}

\* a reader that takes every line that is not 'true' for a 'false'
parse_line_lenient(raw) ==
    IF Lower(Strip(raw)) = "true" THEN Some(TRUE) ELSE Some(FALSE)

\* line.strip(), then line.lower() in the comparisons
parse_line(raw) ==
    LET line == Lower(Strip(raw))
    IN  IF line = "true" THEN Some(TRUE)
        ELSE IF line = "false" THEN Some(FALSE)
        ELSE None

\* the parse of every line of RawLines
ParseLine == [raw \in RawLines |-> parse_line(raw)]


(***************************************************************************)
(* EyeMonitor: construction                                                *)
(***************************************************************************)
\* threshold_seconds given to the constructor (2.0 by default)
Thresholds == {1, 2}

\* the observation variables of a new monitor
EyeObsInit ==
    /\ eye_calls = <<>>
    /\ eye_published = <<>>
    /\ verdicts = <<>>
    /\ recent = <<>>
    /\ all_false = TRUE
    /\ last_op = "init"
    /\ stop_raised = FALSE
    /\ series_start = None
    /\ series_last = None
    /\ series_pubs = 0
    /\ short_reset = FALSE
    /\ ncalls = 0

\* ImageOpener.__init__
OpenerInit ==
    /\ image_windows = <<>>
    /\ open_timer = FALSE
    /\ randomise_timer = FALSE
    /\ orphans = 0
    /\ opened = 0

\* --threshold and --count of afk_timer.py
AfkThresholds == {0, 1}
ImageCounts == {0, 2}

\* AFKTimer.__init__(afk_threshold=th, image_count=count), up to the first
\* statement of the loop of run()
AfkInit(th, count) ==
    /\ afk_threshold = th
    /\ image_count = count
    /\ last_activity = 0
    /\ was_afk = FALSE
    /\ images_spawned = FALSE
    /\ afk_start_time = None
    /\ last_spawn_time = None
    /\ afk_pc = "poll"
    /\ afk_idle = 0
    /\ spawner_windows = 0
    /\ key_handled = FALSE

\* EyeMonitor.__init__, with the subscribers registered by the owner
EyeInitWith(subs, raisers, th, afk_th, count) ==
    /\ threshold_seconds = th
    /\ addon_dir \in {None, Some("addon")}
    /\ eye_subscribers = subs
    /\ eyes_closed_start_time = None
    /\ is_monitoring = FALSE
    /\ current_state = FALSE
    /\ vision_process = None
    /\ reading_buffer = <<>>
    /\ last_emitted_state = None
    /\ threads = <<>>
    /\ procs = <<>>
    /\ now = 0
    /\ raising = raisers
    /\ classified = None
    /\ session = <<>>
    /\ OpenerInit
    /\ AfkInit(afk_th, count)
    /\ EyeObsInit

\* the same where the AFK timer has the defaults of its constructor
EyeInit(subs, raisers, th) == EyeInitWith(subs, raisers, th, 5, 5)

\* WindowMonitor.__init__; no QTimer exists yet
WinInit(subs) ==
    /\ win_subscribers = subs
    /\ timer = None
    /\ running = {}
    /\ ntimers = 0
    /\ previous_state = None
    /\ previous_window_handle = None
    /\ previous_tab = <<None, None>>
    /\ win_published = <<>>
    /\ win_calls = <<>>
    /\ win_last_eval = None
    /\ win_evaluated = FALSE
    /\ win_seen = None
    /\ last_arg = None

\* time.time() advances
Tick ==
    /\ now < MaxTime
    /\ now' = now + 1
    /\ last_op' = "tick"
    /\ UNCHANGED win_vars
    /\ UNCHANGED <<eye_fields, threads, procs, owner, eye_calls,
                   eye_published, verdicts, recent, all_false,
                   stop_raised, series_start, series_last, series_pubs, short_reset, ncalls>>

(***************************************************************************)
(* EyeMonitor.start(): a new daemon thread running _run_vision_model       *)
(***************************************************************************)
\* start() while fewer than n threads have been created
StartUpTo(n) ==
    /\ Len(threads) < n
    /\ is_monitoring' = TRUE
    /\ threads' = Append(threads, [pc |-> "spawn", proc |-> 0])
    /\ all_false' = TRUE
    /\ last_op' = "start"
    /\ UNCHANGED win_vars
    /\ UNCHANGED <<threshold_seconds, addon_dir, eye_subscribers,
                   eyes_closed_start_time, current_state, vision_process,
                   reading_buffer, last_emitted_state, procs, now, owner,
                   eye_calls, eye_published, verdicts, recent, stop_raised,
                   series_start, series_last, series_pubs, short_reset, ncalls>>

Start == StartUpTo(MaxThreads)

(***************************************************************************)
(* _run_vision_model, up to the first read of the worker's output          *)
(***************************************************************************)
\* addon_dir is None: log and return
ThreadNoDir(t) ==
    /\ threads[t].pc = "spawn"
    /\ addon_dir = None
    /\ threads' = [threads EXCEPT ![t].pc = "done"]
    /\ last_op' = "nodir"
    /\ UNCHANGED win_vars
    /\ UNCHANGED <<eye_fields, procs, now, owner, eye_calls, eye_published,
                   verdicts, recent, all_false, stop_raised,
                   series_start, series_last, series_pubs, short_reset, ncalls>>

\* a reader that reports a failed spawn to the subscribers as a closure
ThreadSpawnFailsLoud(t) ==
    /\ threads[t].pc = "spawn"
    /\ addon_dir # None
    /\ threads' = [threads EXCEPT ![t].pc = "done"]
    /\ eye_published' = Append(eye_published, TRUE)
    /\ eye_calls' = eye_calls \o
         CallsOf(notify_subscribers(eye_subscribers, raising), TRUE)
    /\ last_op' = "spawn_failed"
    /\ UNCHANGED win_vars
    /\ UNCHANGED <<eye_fields, procs, now, owner,
                   verdicts, recent, all_false, stop_raised,
                   series_start, series_last, series_pubs, short_reset, ncalls>>

\* subprocess.Popen raises: caught by the except clause, the thread ends
ThreadSpawnFails(t) ==
    /\ threads[t].pc = "spawn"
    /\ addon_dir # None
    /\ threads' = [threads EXCEPT ![t].pc = "done"]
    /\ last_op' = "spawn_failed"
    /\ UNCHANGED win_vars
    /\ UNCHANGED <<eye_fields, procs, now, owner, eye_calls, eye_published,
                   verdicts, recent, all_false, stop_raised,
                   series_start, series_last, series_pubs, short_reset, ncalls>>

\* subprocess.Popen succeeds: the handle is stored in _vision_process
ThreadSpawn(t) ==
    /\ threads[t].pc = "spawn"
    /\ addon_dir # None
    /\ procs' = Append(procs, "running")
    /\ vision_process' = Some(Len(procs) + 1)
    /\ threads' = [threads EXCEPT ![t] = [pc |-> "loop", proc |-> Len(procs) + 1]]
    /\ last_op' = "spawn"
    /\ UNCHANGED win_vars
    /\ UNCHANGED <<threshold_seconds, addon_dir, eye_subscribers,
                   eyes_closed_start_time, is_monitoring, current_state,
                   reading_buffer, last_emitted_state, now, owner,
                   eye_calls, eye_published, verdicts, recent,
                   all_false, stop_raised, series_start, series_last,
                   series_pubs, short_reset, ncalls>>


(***************************************************************************)
(* _run_vision_model: one iteration of `for line in stdout`                *)
(***************************************************************************)
\* a filter that forwards a verdict for every unanimous buffer
verdict_every_time(buf, last) ==
    IF Len(buf) = BufferLen
    THEN IF AllFalse(buf) THEN Some(TRUE)
         ELSE IF AllTrue(buf) THEN Some(FALSE)
         ELSE None
    ELSE None

\* the unanimity test on the buffer: the argument to pass to
\* on_eyes_state_change, or None when nothing is forwarded
Verdict(buf, last) ==
    IF Len(buf) = BufferLen
    THEN IF AllFalse(buf)
         THEN IF last # Some(FALSE) THEN Some(TRUE) ELSE None
         ELSE IF AllTrue(buf)
              THEN IF last # Some(TRUE) THEN Some(FALSE) ELSE None
              ELSE None
    ELSE None

\* the sliding window of the valid samples, as an observer keeps it
Window5(w, x) == IF Len(w) = 5 THEN Append(Tail(w), x) ELSE Append(w, x)

\* the loop reads a line after stop() cleared _is_monitoring: break
ThreadBreak(t) ==
    /\ threads[t].pc = "loop"
    /\ procs[threads[t].proc] = "running"
    /\ ~is_monitoring
    /\ threads' = [threads EXCEPT ![t].pc = "done"]
    /\ last_op' = "break"
    /\ UNCHANGED win_vars
    /\ UNCHANGED <<eye_fields, procs, now, owner, eye_calls, eye_published,
                   verdicts, recent, all_false, stop_raised,
                   series_start, series_last, series_pubs, short_reset, ncalls>>

\* the loop reads the line `raw` while monitoring
ThreadLine(t, raw) ==
    /\ threads[t].pc = "loop"
    /\ procs[threads[t].proc] = "running"
    /\ is_monitoring
    /\ LET sample == ParseLine[raw]
           buf == IF sample = None THEN reading_buffer
                  ELSE deque_append(reading_buffer, Val(sample))
           v == Verdict(buf, last_emitted_state)
       IN  /\ v # None => Len(verdicts) < MaxVerdicts
           /\ reading_buffer' = buf
           /\ IF sample = None
              THEN UNCHANGED <<recent, all_false, session>>
              ELSE /\ recent' = Window5(recent, Val(sample))
                   /\ session' = Window5(session, Val(sample))
                   /\ all_false' = (all_false /\ ~Val(sample))
           /\ IF v = None
              THEN UNCHANGED <<last_emitted_state, eyes_closed_start_time,
                               current_state, eye_calls, eye_published,
                               verdicts, threads>>
              ELSE LET res == on_eyes_state_change(Val(v), now)
                   IN  /\ last_emitted_state' = Some(~Val(v))
                       /\ verdicts' = Append(verdicts, Val(v))
                       /\ ApplyEyes(res)
                       /\ threads' = IF EyesEscaped(res)
                                     THEN [threads EXCEPT ![t].pc = "done"]
                                     ELSE threads
    /\ last_op' = "line"
    /\ UNCHANGED win_vars
    /\ UNCHANGED <<threshold_seconds, addon_dir, eye_subscribers,
                   is_monitoring, vision_process, procs, now, bystanders,
                   stop_raised, series_start, series_last, series_pubs,
                   short_reset, ncalls>>

\* a reader that goes back to spawning a worker when the output ends
ThreadEOFRetry(t) ==
    /\ threads[t].pc = "loop"
    /\ procs[threads[t].proc] = "exited"
    /\ threads' = [threads EXCEPT ![t].pc = "spawn"]
    /\ last_op' = "eof"
    /\ UNCHANGED win_vars
    /\ UNCHANGED <<eye_fields, procs, now, owner, eye_calls, eye_published,
                   verdicts, recent, all_false, stop_raised,
                   series_start, series_last, series_pubs, short_reset, ncalls>>

\* the worker's output ends: the loop ends and the thread returns
ThreadEOF(t) ==
    /\ threads[t].pc = "loop"
    /\ procs[threads[t].proc] = "exited"
    /\ threads' = [threads EXCEPT ![t].pc = "done"]
    /\ last_op' = "eof"
    /\ UNCHANGED win_vars
    /\ UNCHANGED <<eye_fields, procs, now, owner, eye_calls, eye_published,
                   verdicts, recent, all_false, stop_raised,
                   series_start, series_last, series_pubs, short_reset, ncalls>>

\* the worker exits or crashes by itself
WorkerExit(p) ==
    /\ procs[p] = "running"
    /\ procs' = [procs EXCEPT ![p] = "exited"]
    /\ last_op' = "exit"
    /\ UNCHANGED win_vars
    /\ UNCHANGED <<eye_fields, threads, now, owner, eye_calls,
                   eye_published, verdicts, recent, all_false,
                   stop_raised, series_start, series_last, series_pubs, short_reset, ncalls>>

(***************************************************************************)
(* EyeMonitor.stop()                                                       *)
(***************************************************************************)
\* what stop() does after Popen.wait(timeout=2) raised TimeoutExpired
\* (nothing: the exception leaves stop())
stop_after_timeout ==
    /\ stop_raised' = TRUE
    /\ UNCHANGED <<vision_process, reading_buffer, last_emitted_state, procs>>

\* the end of stop(): the buffer and the last emitted verdict are cleared
stop_clear ==
    /\ reading_buffer' = <<>>
    /\ last_emitted_state' = None
    /\ stop_raised' = FALSE

\* a stop() that ends with _vision_thread.join()
stop_with_join == TRUE

\* stop() has no statement that waits for _vision_thread
stop_joins_reader == FALSE

\* the caller of stop() is not held up by a reader thread that is alive
stop_unblocked ==
    stop_joins_reader => \A t \in 1..Len(threads) : threads[t].pc = "done"

Stop ==
    /\ stop_unblocked
    /\ is_monitoring' = FALSE
    /\ eyes_closed_start_time' = None
    /\ \/ /\ vision_process = None
          /\ stop_clear
          /\ UNCHANGED <<vision_process, procs>>
       \/ /\ vision_process # None
          /\ procs[Val(vision_process)] = "exited"
          /\ vision_process' = None
          /\ stop_clear
          /\ UNCHANGED procs
       \/ \* terminate(), and the worker exits within the two seconds
          /\ vision_process # None
          /\ procs[Val(vision_process)] = "running"
          /\ procs' = [procs EXCEPT ![Val(vision_process)] = "exited"]
          /\ vision_process' = None
          /\ stop_clear
       \/ \* terminate(), and the worker is still running after two seconds
          /\ vision_process # None
          /\ procs[Val(vision_process)] = "running"
          /\ stop_after_timeout
    /\ all_false' = TRUE
    /\ session' = <<>>
    /\ last_op' = "stop"
    /\ UNCHANGED win_vars
    /\ UNCHANGED <<threshold_seconds, addon_dir, eye_subscribers,
                   current_state, threads, now, bystanders, eye_calls,
                   eye_published, verdicts, recent, series_start, series_last,
                   series_pubs, short_reset, ncalls>>

(***************************************************************************)
(* The reader-driven monitor: start(), the reader threads, the workers,    *)
(* stop() and the clock                                                    *)
(***************************************************************************)
InitEye ==
    /\ EyeInit(<<"A", "B">>, {"A"}, 2)
    /\ WinInit(<<>>)
    /\ monitors = {"eye", "win"}

NextEye ==
    \/ Start
    \/ Stop
    \/ Tick
    \/ \E t \in 1..Len(threads) : ThreadNoDir(t)
    \/ \E t \in 1..Len(threads) : ThreadSpawnFails(t)
    \/ \E t \in 1..Len(threads) : ThreadSpawn(t)
    \/ \E t \in 1..Len(threads) : ThreadBreak(t)
    \/ \E t \in 1..Len(threads), raw \in RawLines : ThreadLine(t, raw)
    \/ \E t \in 1..Len(threads) : ThreadEOF(t)
    \/ \E p \in 1..Len(procs) : WorkerExit(p)

SpecEye == InitEye /\ [][NextEye]_vars

\* the same monitor where the clock advances and the daemon thread is
\* scheduled whenever it can take a step; which lines the worker prints, and
\* when, stays the worker's choice
FairEye ==
    /\ WF_vars(Tick)
    /\ WF_vars(\E t \in 1..Len(threads) : ThreadSpawn(t))
    /\ WF_vars(\E t \in 1..Len(threads) : ThreadBreak(t))
    /\ WF_vars(\E t \in 1..Len(threads) : ThreadEOF(t))

SpecEyeFair == SpecEye /\ FairEye


(***************************************************************************)
(* The sustained-duration variant: the owner of the monitor calls          *)
(* on_eyes_state_change itself, once per sample, while the clock runs      *)
(***************************************************************************)
Call(eyes_closed) ==
    /\ ncalls < MaxCalls
    /\ ncalls' = ncalls + 1
    /\ LET res == on_eyes_state_change(eyes_closed, now)
       IN  /\ ApplyEyes(res)
           /\ IF eyes_closed
              THEN /\ series_start' = IF series_start = None THEN Some(now)
                                      ELSE series_start
                   /\ series_last' = Some(now)
                   /\ series_pubs' = series_pubs
                                       + (IF res.pub = Some(TRUE) THEN 1 ELSE 0)
                   /\ UNCHANGED short_reset
              ELSE /\ series_start' = None
                   /\ series_last' = None
                   /\ series_pubs' = 0
                   /\ short_reset' =
                        (\/ short_reset
                         \/ /\ series_start # None
                            /\ Val(series_last) - Val(series_start)
                                 < threshold_seconds)
    /\ last_op' = IF eyes_closed THEN "call_true" ELSE "call_false"
    /\ UNCHANGED win_vars
    /\ UNCHANGED <<threshold_seconds, addon_dir, eye_subscribers,
                   is_monitoring, vision_process, reading_buffer,
                   last_emitted_state, threads, procs, now, owner,
                   verdicts, recent, all_false, stop_raised>>

(***************************************************************************)
(* A subscriber callback that calls stop(): the reader thread runs stop()  *)
(* inside _notify_subscribers, inside on_eyes_state_change, inside its     *)
(* loop iteration                                                          *)
(***************************************************************************)
\* the line `raw` makes the reader thread t notify the subscribers
Publishing(t, raw) ==
    /\ threads[t].pc = "loop"
    /\ procs[threads[t].proc] = "running"
    /\ is_monitoring
    /\ eye_subscribers # <<>>
    /\ Len(verdicts) < MaxVerdicts
    /\ LET sample == ParseLine[raw]
           buf == IF sample = None THEN reading_buffer
                  ELSE deque_append(reading_buffer, Val(sample))
           v == Verdict(buf, last_emitted_state)
       IN  /\ v # None
           /\ on_eyes_state_change(Val(v), now).pub # None

\* that iteration when a callback calls stop()
ThreadLineStop(t, raw) ==
    /\ Publishing(t, raw)
    /\ stop_unblocked
    /\ LET sample == ParseLine[raw]
           buf == IF sample = None THEN reading_buffer
                  ELSE deque_append(reading_buffer, Val(sample))
           v == Verdict(buf, last_emitted_state)
           res == on_eyes_state_change(Val(v), now)
       IN  /\ recent' = IF sample = None THEN recent
                        ELSE Window5(recent, Val(sample))
           /\ verdicts' = Append(verdicts, Val(v))
           /\ current_state' = res.cur
           /\ eye_published' = Append(eye_published, Val(res.pub))
           /\ eye_calls' = eye_calls \o
                 CallsOf(notify_subscribers(eye_subscribers, raising),
                         Val(res.pub))
           /\ \/ /\ vision_process = None
                 /\ stop_clear
                 /\ UNCHANGED <<vision_process, procs>>
              \/ /\ vision_process # None
                 /\ procs[Val(vision_process)] = "exited"
                 /\ vision_process' = None
                 /\ stop_clear
                 /\ UNCHANGED procs
              \/ /\ vision_process # None
                 /\ procs[Val(vision_process)] = "running"
                 /\ procs' = [procs EXCEPT ![Val(vision_process)] = "exited"]
                 /\ vision_process' = None
                 /\ stop_clear
              \/ \* TimeoutExpired leaves stop() and is caught by the
                 \* except clause of _notify_subscribers
                 /\ vision_process # None
                 /\ procs[Val(vision_process)] = "running"
                 /\ reading_buffer' = buf
                 /\ last_emitted_state' = Some(~Val(v))
                 /\ stop_raised' = TRUE
                 /\ UNCHANGED <<vision_process, procs>>
    /\ is_monitoring' = FALSE
    /\ eyes_closed_start_time' = None
    /\ all_false' = TRUE
    /\ session' = <<>>
    /\ last_op' = "line_stop"
    /\ UNCHANGED win_vars
    /\ UNCHANGED <<threshold_seconds, addon_dir, eye_subscribers, threads,
                   now, bystanders, series_start, series_last, series_pubs,
                   short_reset, ncalls>>

InitReentrant ==
    /\ EyeInit(<<"A", "B">>, {"A"}, 1)
    /\ addon_dir = Some("addon")
    /\ WinInit(<<>>)
    /\ monitors = {"eye"}

NextReentrant ==
    \/ Start
    \/ Stop
    \/ Tick
    \/ Call(TRUE)
    \/ \E t \in 1..Len(threads) : ThreadSpawn(t)
    \/ \E t \in 1..Len(threads) : ThreadBreak(t)
    \/ \E t \in 1..Len(threads) : ThreadLine(t, "False\n")
    \/ \E t \in 1..Len(threads) : ThreadLineStop(t, "False\n")
    \/ \E t \in 1..Len(threads) : ThreadEOF(t)
    \/ \E p \in 1..Len(procs) : WorkerExit(p)

SpecReentrant == InitReentrant /\ [][NextReentrant]_vars

InitDur ==
    /\ \E subs \in {<<>>, <<"A", "B">>}, th \in Thresholds :
         EyeInit(subs, {"A"}, th)
    /\ WinInit(<<>>)
    /\ monitors = {"eye", "win"}

NextDur ==
    \/ Tick
    \/ \E b \in BOOLEAN : Call(b)

SpecDur == InitDur /\ [][NextDur]_vars


(***************************************************************************)
(* tabs/work_filter.py: the tab classifier                                 *)
(***************************************************************************)
WHITELIST_DOMAINS == {
    "khanacademy.org", "coursera.org", "edx.org", "udemy.com",
    "ocw.mit.edu", "mit.edu", "brilliant.org",
    "wolframalpha.com", "wikipedia.org", "arxiv.org", "gutenberg.org",
    "notion.so", "obsidian.md", "onenote.com", "office.com",
    "docs.google.com", "drive.google.com", "sheets.google.com",
    "ankiweb.net", "quizlet.com", "pomofocus.io", "forestapp.cc",
    "leetcode.com", "hackerrank.com", "codeforces.com",
    "geeksforgeeks.org", "w3schools.com", "developer.mozilla.org",
    "stackoverflow.com"}

BLACKLIST_DOMAINS == {
    "reddit.com", "tiktok.com", "instagram.com", "x.com", "twitter.com",
    "netflix.com", "disneyplus.com", "hulu.com", "twitch.tv",
    "pinterest.com", "tumblr.com",
    "cnn.com", "bbc.com", "nytimes.com", "theguardian.com"}

SEARCH_ENGINE_DOMAINS == {
    "google.com", "bing.com", "duckduckgo.com", "ddg.gg",
    "search.yahoo.com", "yandex.com"}

WORK_TITLE_KEYWORDS == {
    "documentation", "docs", "api", "mdn", "w3schools",
    "leetcode", "hackerrank", "codeforces",
    "tutorial", "course", "lecture", "assignment",
    "problem set", "problem-set", "arxiv", "paper",
    "notion", "obsidian", "onenote", "google docs", "google sheets", "drive",
    "quizlet", "anki", "pomofocus", "forest",
    "wolfram", "khan academy", "ocw", "brilliant", "edx", "coursera", "udemy",
    "error", "exception", "stack overflow", "stackoverflow"}

NONWORK_TITLE_KEYWORDS == {
    "highlights", "trailer", "vlog", "prank", "meme", "asmr", "music video",
    "live stream", "livestream", "shorts", "reaction", "tier list",
    "tiktok", "instagram", "reddit", "try not to", "funny",
    "movie clip", "behind the scenes", "bts", "gaming", "let's play",
    "lets play"}

StartsWith(s, p) == Len(s) >= Len(p) /\ SubSeq(s, 1, Len(p)) = p
EndsWith(s, p) ==
    Len(s) >= Len(p) /\ SubSeq(s, Len(s) - Len(p) + 1, Len(s)) = p

\* the characters of a URL scheme (letters, digits, "+", "-", ".")
IsSchemeChar(c) ==
    \/ \E i \in 1..26 : c = UpperChars[i] \/ c = LowerChars[i]
    \/ c \in {"0", "1", "2", "3", "4", "5", "6", "7", "8", "9", "+", "-", "."}

\* the position of the first ":" of a text, if it is not the first character
FirstColon(url) ==
    {i \in 2..Len(url) :
        /\ SubSeq(url, i, i) = ":"
        /\ \A j \in 1..(i - 1) : SubSeq(url, j, j) # ":"}

\* urlsplit: the text after "scheme:", or the whole text without a scheme
after_scheme(url, colons) ==
    IF /\ colons # {}
       /\ \A i \in colons : \A j \in 1..(i - 1) :
              IsSchemeChar(SubSeq(url, j, j))
       /\ ~(SubSeq(url, 1, 1)
              \in {"0", "1", "2", "3", "4", "5", "6", "7", "8", "9",
                   "+", "-", "."})
    THEN SubSeq(url, (CHOOSE i \in colons : TRUE) + 1, Len(url))
    ELSE url

AfterScheme(url) == after_scheme(url, FirstColon(url))

\* the text before the first of the positions `stops`
Before(rest, stops) ==
    IF stops = {} THEN rest
    ELSE SubSeq(rest, 1, (CHOOSE i \in stops : \A j \in stops : i <= j) - 1)

\* the authority of "//authority/path?query#fragment"
authority(rest) ==
    Before(rest, {i \in 1..Len(rest) : SubSeq(rest, i, i) \in {"/", "?", "#"}})

\* urlparse(url).netloc: between "//" and the next "/", "?" or "#"
netloc_of(r) ==
    IF StartsWith(r, "//") THEN authority(SubSeq(r, 3, Len(r))) ELSE ""

Netloc(url) == netloc_of(AfterScheme(url))

\* host[4:] if host.startswith("www.") else host
strip_www(h) == IF StartsWith(h, "www.") THEN SubSeq(h, 5, Len(h)) ELSE h

\* _host(url): "" for a missing URL, else the lower-cased netloc without a
\* leading "www."
host_of(url) ==
    IF url = None \/ url = Some("") THEN ""
    ELSE strip_www(Lower(Netloc(Val(url))))

\* (title or "").strip()
title_of(title) == IF title = None THEN "" ELSE Strip(Val(title))

\* _host_in(host, domset)
host_in(host, domset) ==
    \E d \in domset : host = d \/ EndsWith(host, "." \o d)

\* _any_kw(s, kws)
any_kw(s, kws) == \E k \in kws : Contains(Lower(s), k)

\* the default of step 6 of the policy in the docstring of classify
classify_optimistic == "whitelist"

\* the label returned when no domain rule and no title keyword matches
classify_default == "unclassified"

\* the rules with the search-engine rule tried before the whitelist domains
classify_search_first(host, t) ==
    IF host # "" /\ host_in(host, SEARCH_ENGINE_DOMAINS)
    THEN IF any_kw(t, WORK_TITLE_KEYWORDS) THEN "whitelist"
         ELSE IF any_kw(t, NONWORK_TITLE_KEYWORDS) THEN "blacklist"
         ELSE "unclassified"
    ELSE IF host # "" /\ host_in(host, WHITELIST_DOMAINS) THEN "whitelist"
    ELSE IF host # "" /\ (host = "youtube.com"
                           \/ EndsWith(host, ".youtube.com"))
    THEN IF any_kw(t, WORK_TITLE_KEYWORDS) THEN "whitelist"
         ELSE "blacklist"
    ELSE IF host # "" /\ host_in(host, BLACKLIST_DOMAINS) THEN "blacklist"
    ELSE IF t # "" /\ any_kw(t, WORK_TITLE_KEYWORDS) THEN "whitelist"
    ELSE IF t # "" /\ any_kw(t, NONWORK_TITLE_KEYWORDS) THEN "blacklist"
    ELSE classify_default

\* the rules of classify(url, title) on the host and the stripped title
classify_rules(host, t) ==
    IF host # "" /\ host_in(host, WHITELIST_DOMAINS) THEN "whitelist"
    ELSE IF host # "" /\ (host = "youtube.com"
                           \/ EndsWith(host, ".youtube.com"))
    THEN IF any_kw(t, WORK_TITLE_KEYWORDS) THEN "whitelist"
         ELSE "blacklist"
    ELSE IF host # "" /\ host_in(host, BLACKLIST_DOMAINS) THEN "blacklist"
    ELSE IF host # "" /\ host_in(host, SEARCH_ENGINE_DOMAINS)
    THEN IF any_kw(t, WORK_TITLE_KEYWORDS) THEN "whitelist"
         ELSE IF any_kw(t, NONWORK_TITLE_KEYWORDS) THEN "blacklist"
         ELSE "unclassified"
    ELSE IF t # "" /\ any_kw(t, WORK_TITLE_KEYWORDS) THEN "whitelist"
    ELSE IF t # "" /\ any_kw(t, NONWORK_TITLE_KEYWORDS) THEN "blacklist"
    ELSE classify_default

\* classify(url, title)
classify(url, title) == classify_rules(host_of(url), title_of(title))

(***************************************************************************)
(* What the telemetry provider can report                                  *)
(***************************************************************************)
\* get_active_window_info(): None, or a window
Windows == {
    [handle |-> 1, title |-> "Notepad", class_name |-> "Notepad",
     process_name |-> "notepad.exe"],
    [handle |-> 2, title |-> "Discord", class_name |-> "Chrome_WidgetWin_1",
     process_name |-> "Discord.exe"],
    [handle |-> 3, title |-> "Browse - Anki", class_name |-> "Qt5QWindowIcon",
     process_name |-> "pythonw.exe"],
    [handle |-> 4, title |-> "reddit.com - Google Chrome",
     class_name |-> "Chrome_WidgetWin_1", process_name |-> "chrome.exe"]}

WindowInfos == {None} \cup {Some(w) : w \in Windows}

\* get_active_window_info_mac(): the name of the front application as the
\* title, handle 0, no class name and no process name
MacTitles == {"Anki", "Discord", "Finder", "Steam"}
MacWindows ==
    {[handle |-> 0, title |-> t, class_name |-> "", process_name |-> ""] :
        t \in MacTitles}
MacWindowInfos == {Some(w) : w \in MacWindows}

\* windows of the interpreter that runs the add-on, with titles that carry
\* blacklist keywords
OwnWindows == {
    [handle |-> 5, title |-> "Discord bot - Python",
     class_name |-> "ConsoleWindowClass", process_name |-> "python.exe"],
    [handle |-> 6, title |-> "Steam deck - Anki",
     class_name |-> "Qt5QWindowIcon", process_name |-> "PythonW.exe"]}
OwnWindowInfos == {Some(w) : w \in OwnWindows}

\* a browser window whose title carries a blacklist keyword and a
\* whitelist keyword, and a window without a title
TitledWindows == {
    [handle |-> 7, title |-> "Discord - Google Chrome",
     class_name |-> "Chrome_WidgetWin_1", process_name |-> "chrome.exe"],
    [handle |-> 8, title |-> "", class_name |-> "Shell_TrayWnd",
     process_name |-> "explorer.exe"]}
TitledWindowInfos == {Some(w) : w \in TitledWindows}

\* every snapshot of the model
AllWindows == Windows \cup MacWindows \cup OwnWindows \cup TitledWindows
AllWindowInfos ==
    WindowInfos \cup MacWindowInfos \cup OwnWindowInfos \cup TitledWindowInfos

\* get_active_tab(): (title, url), each possibly None
Tabs == {
    <<None, None>>,
    <<Some("funny meme"), Some("https://reddit.com/r/foo")>>,
    <<Some("Untitled document"), Some("https://docs.google.com/document/d/1")>>,
    <<Some("cats - Google Search"), Some("https://www.google.com/search?q=cats")>>}

\* the value a table of <<key, value>> pairs holds for a key
At(table, key) == (CHOOSE p \in table : p[1] = key)[2]

\* classify(url, title) of every tab the provider can report
TabLabel == {<<tab, classify(tab[2], tab[1])>> : tab \in Tabs}

(***************************************************************************)
(* WindowMonitor: classification                                           *)
(***************************************************************************)
WHITELISTED == "whitelisted"
BLACKLISTED == "blacklisted"
UNCLASSIFIED == "unclassified"

WHITELIST == {"anki", "microsoft teams", "outlook", "visual studio code",
              "google chrome", "comet", "add", "firefox", "file explorer",
              "task view", "task switching", "search"}

BLACKLIST == {"discord", "whatsapp", "doom", "signal", "telegram", "steam",
              "valorant", "twitch", "epic games", "fortnite",
              "genshin impact", "apex legends", "league of legends",
              "roblox", "minecraft", "call of duty", "overwatch", "csgo"}

\* a log that accepts any number of arguments
log_accepts(nargs) == FALSE

\* log(message) of log_util/__init__.py takes one positional argument:
\* a call with any other number of arguments raises TypeError
log_raises(nargs) == nargs # 1

\* the keywords of the window title, whitelist keywords first
title_state_whitelist_first(title) ==
    IF \E kw \in WHITELIST : Contains(Lower(title), kw) THEN WHITELISTED
    ELSE IF \E kw \in BLACKLIST : Contains(Lower(title), kw) THEN BLACKLISTED
    ELSE UNCLASSIFIED

\* the legacy heuristics of _classify_window: keywords of the window title
title_state(title) ==
    IF \E kw \in BLACKLIST : Contains(Lower(title), kw) THEN BLACKLISTED
    ELSE IF \E kw \in WHITELIST : Contains(Lower(title), kw) THEN WHITELISTED
    ELSE UNCLASSIFIED

\* title_state of every window the provider can report
TitleState == {<<w, title_state(w.title)>> : w \in AllWindows}

\* process_name.lower() in ['python.exe', 'pythonw.exe']
own_process(w) == Lower(w.process_name) \in {"python.exe", "pythonw.exe"}

OwnProcess == {<<w, own_process(w)>> : w \in AllWindows}

\* tab_title or tab_url
tab_present(tab) ==
    (tab[1] # None /\ tab[1] # Some("")) \/ (tab[2] # None /\ tab[2] # Some(""))

\* the window label of a tab label
tab_state(label) ==
    IF label = "whitelist" THEN WHITELISTED
    ELSE IF label = "blacklist" THEN BLACKLISTED
    ELSE UNCLASSIFIED

\* _classify_window without the test of the process name
classify_no_own_rule(info, tab) ==
    IF info = None THEN UNCLASSIFIED
    ELSE IF ~log_raises(3) /\ tab_present(tab)
            /\ At(TabLabel, tab) \in {"whitelist", "blacklist"}
    THEN tab_state(At(TabLabel, tab))
    ELSE At(TitleState, Val(info))

\* _classify_window(window_info), `tab` being what get_active_tab() returns
\* inside it.  log("detected tab:", tab_title, tab_url) passes three
\* arguments; when it raises, the except clause skips the tab rules.
classify_window(info, tab) ==
    IF info = None THEN UNCLASSIFIED
    ELSE IF At(OwnProcess, Val(info)) THEN WHITELISTED
    ELSE IF ~log_raises(3) /\ tab_present(tab)
            /\ At(TabLabel, tab) \in {"whitelist", "blacklist"}
    THEN tab_state(At(TabLabel, tab))
    ELSE At(TitleState, Val(info))

\* the browser test of _check_window_change
browser_names(class_name, proc_name) ==
    /\ \/ /\ class_name = "Chrome_WidgetWin_1"
          /\ proc_name \in {"chrome.exe", "msedge.exe", "brave.exe"}
       \/ proc_name = "firefox.exe"
    /\ proc_name \notin {"code.exe", "discord.exe", "slack.exe", "teams.exe",
                         "spotify.exe"}

browser_test(info) ==
    IF info = None THEN FALSE
    ELSE browser_names(Strip(Val(info).class_name),
                       Lower(Val(info).process_name))

\* the browser test of every answer of the provider
IsBrowser == {<<info, browser_test(info)>> : info \in AllWindowInfos}

is_browser(info) == At(IsBrowser, info)

\* the label the browser branch of _check_window_change computes
browser_state(info, tab) ==
    IF tab_present(tab) THEN tab_state(At(TabLabel, tab))
    ELSE classify_window(info, tab)

\* current_window.get('handle') if current_window else None
handle_of(info) == IF info = None THEN None ELSE Some(Val(info).handle)

(***************************************************************************)
(* WindowMonitor: start(), stop() and the timer callback                   *)
(***************************************************************************)
\* start() inside Anki: classify the initial window, create and start a timer
WinStartUpTo(n, info, tab) ==
    /\ ntimers < n
    /\ previous_state' = Some(classify_window(info, tab))
    /\ win_last_eval' = Some([label |-> Val(previous_state'),
                              published |-> FALSE, completed |-> TRUE,
                              propagated |-> FALSE,
                              change_type |-> "Start"])
    /\ previous_window_handle' = handle_of(info)
    /\ previous_tab' = tab
    /\ ntimers' = ntimers + 1
    /\ timer' = Some(ntimers + 1)
    /\ running' = running \cup {ntimers + 1}
    /\ win_evaluated' = FALSE
    /\ win_seen' = Some([info |-> info, tab |-> tab])
    /\ last_op' = "win_start"
    /\ last_arg' = None
    /\ UNCHANGED <<win_subscribers, win_published, win_calls, eye_but_op>>

WinStart(info, tab) == WinStartUpTo(MaxWinStarts, info, tab)

\* start() where aqt cannot be imported: the except clause swallows it
WinStartFails ==
    /\ ntimers < MaxWinStarts
    /\ last_op' = "win_start_failed"
    /\ last_arg' = None
    /\ UNCHANGED <<win_subscribers, timer, running, ntimers, previous_state,
                   previous_window_handle, previous_tab, win_published,
                   win_calls, win_last_eval, win_evaluated, win_seen,
                   eye_but_op>>

\* stop()
WinStop ==
    /\ IF timer # None
       THEN /\ running' = running \ {Val(timer)}
            /\ timer' = None
       ELSE UNCHANGED <<running, timer>>
    /\ win_evaluated' = FALSE
    /\ last_op' = "win_stop"
    /\ last_arg' = None
    /\ UNCHANGED <<win_subscribers, ntimers, previous_state,
                   previous_window_handle, previous_tab, win_published,
                   win_calls, win_last_eval, win_seen, eye_but_op>>

\* a tick that publishes regardless of the stored label
state_changed_always(cs, prev) == TRUE

\* current_state != self._previous_state
state_changed(cs, prev) == Some(cs) # prev

\* current_window.get('title', '') raises AttributeError when the provider
\* returned None
title_raises(info) == info = None

\* what one run of _check_window_change computes from the provider's
\* answers, up to the call of _notify_subscribers:
\*   evaluated - the window was re-classified, with result `label`
\*   raised    - an exception left the try block before the notification
\*   publish   - _notify_subscribers is called
\*   handle, tab - the tracking values stored at the end
\* nothing changed: no classification
unchanged_window ==
    [evaluated |-> FALSE, label |-> UNCLASSIFIED, raised |-> FALSE,
     publish |-> FALSE, handle |-> previous_window_handle,
     tab |-> previous_tab]

\* the window or the tab changed and was classified as cs
changed_window(cs, raised, handle, tab) ==
    IF raised
    THEN [evaluated |-> TRUE, label |-> cs, raised |-> TRUE,
          publish |-> FALSE, handle |-> previous_window_handle,
          tab |-> previous_tab]
    ELSE [evaluated |-> TRUE, label |-> cs, raised |-> FALSE,
          publish |-> state_changed(cs, previous_state),
          handle |-> handle, tab |-> tab]

\* a tick that looks at the window handle only, also for browsers
check_handle_only(info, tab) ==
    IF handle_of(info) # previous_window_handle
    THEN IF is_browser(info)
         THEN changed_window(browser_state(info, tab), FALSE,
                             handle_of(info), tab)
         ELSE changed_window(classify_window(info, tab), title_raises(info),
                             handle_of(info), <<None, None>>)
    ELSE unchanged_window

\* a tick that re-classifies whatever the handle is
check_every_tick(info, tab) ==
    IF is_browser(info)
    THEN changed_window(browser_state(info, tab), FALSE, handle_of(info), tab)
    ELSE changed_window(classify_window(info, tab), title_raises(info),
                        handle_of(info), <<None, None>>)

check_window_change(info, tab) ==
    IF is_browser(info)
    THEN IF handle_of(info) # previous_window_handle \/ tab # previous_tab
         THEN changed_window(browser_state(info, tab), FALSE,
                             handle_of(info), tab)
         ELSE unchanged_window
    ELSE IF handle_of(info) # previous_window_handle
         THEN changed_window(classify_window(info, tab), title_raises(info),
                             handle_of(info), <<None, None>>)
         ELSE unchanged_window

\* a tick without the enclosing try/except
tick_no_catch == FALSE

\* the `except Exception` clause that encloses all of _check_window_change
tick_catches == TRUE

\* change_type = "Window" if window_changed else "Tab"
change_type(info) ==
    IF handle_of(info) # previous_window_handle THEN "Window" ELSE "Tab"

\* a tick that publishes and keeps the label it had stored
stored_label_stale(r) == previous_state

\* self._previous_state = current_state, inside `if current_state !=
\* self._previous_state`
stored_label(r) == IF r.publish THEN Some(r.label) ELSE previous_state

\* the end of _check_window_change: notification and tracking update
ApplyCheck(r, n, info) ==
    /\ r.publish => Len(win_published) < MaxEvents
    /\ IF r.publish
       THEN /\ win_published' = Append(win_published,
                 [prev |-> Val(previous_state), curr |-> r.label,
                  title |-> Val(info).title])
            /\ win_calls' = win_calls \o
                 [i \in 1..Len(n.invoked) |->
                     <<n.invoked[i], Val(previous_state), r.label,
                       Val(info).title>>]
       ELSE UNCHANGED <<win_published, win_calls>>
    /\ IF r.raised \/ (r.publish /\ n.escaped)
       THEN UNCHANGED <<previous_state, previous_window_handle, previous_tab>>
       ELSE /\ previous_state' = stored_label(r)
            /\ previous_window_handle' = r.handle
            /\ previous_tab' = r.tab
    /\ win_evaluated' = r.evaluated
    /\ win_last_eval' = IF r.evaluated
                        THEN Some([label |-> r.label, published |-> r.publish,
                                   completed |-> ~r.raised,
                                   propagated |->
                                       /\ r.raised \/ (r.publish /\ n.escaped)
                                       /\ ~tick_catches,
                                   change_type |-> change_type(info)])
                        ELSE win_last_eval

\* the timer fires: _check_window_change runs to completion
WinTick(info, tab) ==
    /\ running # {}
    /\ ApplyCheck(check_window_change(info, tab),
                  notify_subscribers(win_subscribers, raising), info)
    /\ win_seen' = Some([info |-> info, tab |-> tab])
    /\ last_op' = "win_tick"
    /\ last_arg' = None
    /\ UNCHANGED <<win_subscribers, timer, running, ntimers, eye_but_op>>

(***************************************************************************)
(* subscribe / unsubscribe of both monitors                                *)
(***************************************************************************)
WinSubscribe(cb) ==
    /\ win_subscribers' = subscribe(win_subscribers, cb)
    /\ last_op' = "win_subscribe"
    /\ last_arg' = Some(cb)
    /\ win_evaluated' = FALSE
    /\ UNCHANGED <<timer, running, ntimers, previous_state,
                   previous_window_handle, previous_tab, win_published,
                   win_calls, win_last_eval, win_seen, eye_but_op>>

WinUnsubscribe(cb) ==
    /\ win_subscribers' = unsubscribe(win_subscribers, cb)
    /\ last_op' = "win_unsubscribe"
    /\ last_arg' = Some(cb)
    /\ win_evaluated' = FALSE
    /\ UNCHANGED <<timer, running, ntimers, previous_state,
                   previous_window_handle, previous_tab, win_published,
                   win_calls, win_last_eval, win_seen, eye_but_op>>

EyeSubscribe(cb) ==
    /\ eye_subscribers' = subscribe(eye_subscribers, cb)
    /\ last_op' = "eye_subscribe"
    /\ last_arg' = Some(cb)
    /\ UNCHANGED <<threshold_seconds, addon_dir, eyes_closed_start_time,
                   is_monitoring, current_state, vision_process,
                   reading_buffer, last_emitted_state, eye_env, eye_calls,
                   eye_published, verdicts, recent, all_false, stop_raised,
                   series_start, series_last, series_pubs, short_reset,
                   ncalls, win_state, win_obs>>

EyeUnsubscribe(cb) ==
    /\ eye_subscribers' = unsubscribe(eye_subscribers, cb)
    /\ last_op' = "eye_unsubscribe"
    /\ last_arg' = Some(cb)
    /\ UNCHANGED <<threshold_seconds, addon_dir, eyes_closed_start_time,
                   is_monitoring, current_state, vision_process,
                   reading_buffer, last_emitted_state, eye_env, eye_calls,
                   eye_published, verdicts, recent, all_false, stop_raised,
                   series_start, series_last, series_pubs, short_reset,
                   ncalls, win_state, win_obs>>

(***************************************************************************)
(* The window monitor on its timer                                         *)
(***************************************************************************)
InitWin ==
    /\ EyeInit(<<>>, {"A"}, 2)
    /\ addon_dir = None
    /\ \E subs \in {<<>>, <<"A", "B">>} : WinInit(subs)
    /\ monitors = {"eye", "win"}

NextWin ==
    \/ \E info \in WindowInfos, tab \in Tabs : WinStart(info, tab)
    \/ WinStartFails
    \/ WinStop
    \/ \E info \in WindowInfos, tab \in Tabs : WinTick(info, tab)

SpecWin == InitWin /\ [][NextWin]_vars

(***************************************************************************)
(* Both monitors with their subscriber registries: the owner subscribes    *)
(* and unsubscribes callbacks while the monitors publish                   *)
(***************************************************************************)
\* what the provider reports while no browser is in the foreground
NoTab == <<None, None>>
BusWindowInfos == {info \in WindowInfos : ~is_browser(info)}

\* the owner has constructed one of the two monitors
InitBus ==
    /\ EyeInit(<<>>, {"A"}, 1)
    /\ addon_dir = None
    /\ WinInit(<<>>)
    /\ monitors \in {{"eye"}, {"win"}}

NextBus ==
    \/ "eye" \in monitors /\ \E cb \in BusCallbacks : EyeSubscribe(cb)
    \/ "eye" \in monitors /\ \E cb \in BusCallbacks : EyeUnsubscribe(cb)
    \/ "eye" \in monitors /\ Tick
    \/ "eye" \in monitors /\ \E b \in BOOLEAN : Call(b)
    \/ "win" \in monitors /\ \E cb \in BusCallbacks : WinSubscribe(cb)
    \/ "win" \in monitors /\ \E cb \in BusCallbacks : WinUnsubscribe(cb)
    \/ "win" \in monitors /\ \E info \in BusWindowInfos : WinStart(info, NoTab)
    \/ "win" \in monitors /\ \E info \in BusWindowInfos : WinTick(info, NoTab)

SpecBus == InitBus /\ [][NextBus]_vars

(***************************************************************************)
(* The window monitor on a provider whose snapshots all carry handle 0, as *)
(* get_active_window_info_mac makes them, and where get_active_tab() has   *)
(* no tab to report                                                        *)
(***************************************************************************)
InitMac ==
    /\ EyeInit(<<>>, {"A"}, 2)
    /\ addon_dir = None
    /\ WinInit(<<"A", "B">>)
    /\ monitors = {"eye", "win"}

NextMac ==
    \/ \E info \in MacWindowInfos : WinStart(info, <<None, None>>)
    \/ WinStop
    \/ \E info \in MacWindowInfos : WinTick(info, <<None, None>>)
    \/ \E cb \in BusCallbacks : WinSubscribe(cb)
    \/ \E cb \in BusCallbacks : WinUnsubscribe(cb)

SpecMac == InitMac /\ [][NextMac]_vars

(***************************************************************************)
(* The life cycle of one monitor: the owner starts and stops it in any     *)
(* order while it runs; the owner of an EyeMonitor may also report samples *)
(* itself                                                                  *)
(***************************************************************************)
LifeLines == {"False\n"}

InitLife ==
    /\ EyeInit(<<"A", "B">>, {"A"}, 1)
    /\ addon_dir = Some("addon")
    /\ WinInit(<<"A", "B">>)
    /\ monitors \in {{"eye"}, {"win"}}

NextLife ==
    \/ "eye" \in monitors /\ Start
    \/ "eye" \in monitors /\ Stop
    \/ "eye" \in monitors /\ Tick
    \/ "eye" \in monitors /\ \E b \in BOOLEAN : Call(b)
    \/ "eye" \in monitors /\ \E t \in 1..Len(threads) : ThreadSpawn(t)
    \/ "eye" \in monitors /\ \E t \in 1..Len(threads) : ThreadSpawnFails(t)
    \/ "eye" \in monitors /\ \E t \in 1..Len(threads) : ThreadBreak(t)
    \/ "eye" \in monitors
          /\ \E t \in 1..Len(threads), raw \in LifeLines : ThreadLine(t, raw)
    \/ "eye" \in monitors /\ \E t \in 1..Len(threads) : ThreadEOF(t)
    \/ "eye" \in monitors /\ \E p \in 1..Len(procs) : WorkerExit(p)
    \/ "win" \in monitors /\ \E info \in BusWindowInfos : WinStart(info, NoTab)
    \/ "win" \in monitors /\ WinStartFails
    \/ "win" \in monitors /\ WinStop
    \/ "win" \in monitors /\ \E info \in BusWindowInfos : WinTick(info, NoTab)

SpecLife == InitLife /\ [][NextLife]_vars

(***************************************************************************)
(* _notify_subscribers with callbacks that change the subscriber list      *)
(* while they run.  `for callback in self._subscribers` walks the live     *)
(* list by position.                                                       *)
(***************************************************************************)
\* the list after the callback cb ran: a callback of `leavers` unsubscribes
\* itself, a callback of `adders` subscribes the callback "C"
callback_effect(subs, cb, leavers, adders) ==
    IF cb \in leavers THEN unsubscribe(subs, cb)
    ELSE IF cb \in adders THEN subscribe(subs, "C")
    ELSE subs

\* the loop from position i on: the callbacks invoked and the final list
RECURSIVE dispatch_from(_, _, _, _)
dispatch_from(subs, i, leavers, adders) ==
    IF i > Len(subs) THEN [invoked |-> <<>>, subs |-> subs]
    ELSE LET rest == dispatch_from(
                         callback_effect(subs, subs[i], leavers, adders),
                         i + 1, leavers, adders)
         IN  [invoked |-> <<subs[i]>> \o rest.invoked, subs |-> rest.subs]

\* _notify_subscribers(...) of either monitor with such callbacks
dispatch(subs, leavers, adders) == dispatch_from(subs, 1, leavers, adders)

\* a tick of the WindowMonitor whose subscribers are such callbacks
WinTickDispatch(info, tab, leavers, adders) ==
    /\ running # {}
    /\ ApplyCheck(check_window_change(info, tab),
                  [invoked |-> dispatch(win_subscribers, leavers,
                                        adders).invoked,
                   escaped |-> FALSE], info)
    /\ win_subscribers' =
         IF check_window_change(info, tab).publish
         THEN dispatch(win_subscribers, leavers, adders).subs
         ELSE win_subscribers
    /\ win_seen' = Some([info |-> info, tab |-> tab])
    /\ last_op' = "win_tick"
    /\ last_arg' = None
    /\ UNCHANGED <<timer, running, ntimers, eye_but_op>>

InitDispatch ==
    /\ EyeInit(<<>>, {}, 2)
    /\ addon_dir = None
    /\ WinInit(<<>>)
    /\ monitors = {"win"}

NextDispatch ==
    \/ \E cb \in BusCallbacks : WinSubscribe(cb)
    \/ \E cb \in BusCallbacks : WinUnsubscribe(cb)
    \/ \E info \in BusWindowInfos : WinStart(info, NoTab)
    \/ \E info \in BusWindowInfos, leavers \in SUBSET BusCallbacks,
          adders \in SUBSET {"A"} :
            WinTickDispatch(info, NoTab, leavers, adders)

SpecDispatch == InitDispatch /\ [][NextDispatch]_vars

(***************************************************************************)
(* The window monitor when its owner stops and starts it again             *)
(***************************************************************************)
InitWinRestart ==
    /\ EyeInit(<<>>, {"A"}, 2)
    /\ addon_dir = None
    /\ WinInit(<<"A", "B">>)
    /\ monitors = {"win"}

\* the windows "Notepad" and "Discord", and the browser window with the
\* tabs on reddit.com and on docs.google.com
RestartInfos == {Some(w) : w \in {v \in Windows : v.handle \in {1, 2}}}
BrowserInfos == {info \in WindowInfos : is_browser(info)}
BrowserTabs == {tab \in Tabs : At(TabLabel, tab) \in {"whitelist", "blacklist"}}

NextWinRestart ==
    \/ \E info \in RestartInfos : WinStartUpTo(MaxSessions, info, NoTab)
    \/ WinStop
    \/ \E info \in RestartInfos : WinTick(info, NoTab)
    \/ \E info \in BrowserInfos, tab \in BrowserTabs : WinTick(info, tab)

SpecWinRestart == InitWinRestart /\ [][NextWinRestart]_vars

(***************************************************************************)
(* The owner starts, stops and restarts the EyeMonitor while the reader    *)
(* threads of the earlier start() calls may still be alive                 *)
(***************************************************************************)
InitRestart ==
    /\ EyeInit(<<"A", "B">>, {"A"}, 1)
    /\ addon_dir = Some("addon")
    /\ WinInit(<<>>)
    /\ monitors = {"eye"}

NextRestart ==
    \/ StartUpTo(MaxReaders)
    \/ Stop
    \/ \E t \in 1..Len(threads) : ThreadSpawnFails(t)
    \/ \E t \in 1..Len(threads) : ThreadSpawn(t)
    \/ \E t \in 1..Len(threads) : ThreadBreak(t)
    \/ \E t \in 1..Len(threads), raw \in LifeLines : ThreadLine(t, raw)
    \/ \E t \in 1..Len(threads) : ThreadEOF(t)
    \/ \E p \in 1..Len(procs) : WorkerExit(p)

SpecRestart == InitRestart /\ [][NextRestart]_vars

(***************************************************************************)
(* The classifiers called directly: classify(url, title) of work_filter.py *)
(* and WindowMonitor._classify_window(window_info)                         *)
(***************************************************************************)
\* URLs a tab can report
Urls == {
    None, Some(""),
    Some("https://docs.google.com/document/d/1"),
    Some("HTTPS://WWW.Wikipedia.org/wiki/TLA"),
    Some("https://www.youtube.com/watch?v=1"),
    Some("https://m.youtube.com/shorts/2"),
    Some("https://reddit.com/r/foo"),
    Some("https://old.reddit.com/r/foo"),
    Some("https://www.google.com/search?q=cats"),
    Some("https://notgoogle.com/"),
    Some("https://example.com/"),
    Some("reddit.com/r/foo")}

\* titles a tab can report
Titles == {
    None, Some(""), Some("  "),
    Some("funny meme"),
    Some("Python tutorial"),
    Some("Funny Tutorial"),
    Some("Lecture 1 HIGHLIGHTS"),
    Some("cats - Google Search"),
    Some("Untitled document")}

\* classify(url=url, title=title)
ClassifyTab(url, title) ==
    /\ classified' = Some([fn |-> "classify", a |-> url, b |-> title,
                           label |-> classify(url, title)])
    /\ UNCHANGED <<eye_fields, threads, procs, now, raising, monitors,
                   session, apps, eye_obs, win_vars>>

\* _classify_window(info) while get_active_tab() returns tab
ClassifyWindow(info, tab) ==
    /\ classified' = Some([fn |-> "_classify_window", a |-> info, b |-> tab,
                           label |-> classify_window(info, tab)])
    /\ UNCHANGED <<eye_fields, threads, procs, now, raising, monitors,
                   session, apps, eye_obs, win_vars>>

InitClassify ==
    /\ EyeInit(<<>>, {}, 2)
    /\ addon_dir = None
    /\ WinInit(<<>>)
    /\ monitors = {"win"}

NextClassify ==
    \/ \E url \in Urls, title \in Titles : ClassifyTab(url, title)
    \/ \E info \in AllWindowInfos, tab \in Tabs : ClassifyWindow(info, tab)

SpecClassify == InitClassify /\ [][NextClassify]_vars

(***************************************************************************)
(* image_opener.py: ImageOpener                                            *)
(***************************************************************************)
MAX_WINDOWS == 5

\* values of spawn_count
SpawnCounts == {-1, 0, 1, 3, 6}

Min(a, b) == IF a <= b THEN a ELSE b

\* n windows that were just shown
Shown(n) == [i \in 1..n |-> TRUE]

\* the tracked windows that are visible
Visible(ws) == SelectSeq(ws, LAMBDA v : v)

\* an open_images without the limit
spawn_unlimited(n, k, exists, loads) ==
    IF k <= 0 \/ ~exists \/ ~loads THEN 0 ELSE k

\* the number of windows open_images(spawn_count=k) appends while n are
\* tracked; `exists` is os.path.exists(image_path), `loads` is
\* `not pix.isNull()`
spawn_number(n, k, exists, loads) ==
    IF n >= MAX_WINDOWS THEN 0
    ELSE IF Min(k, MAX_WINDOWS - n) <= 0 THEN 0
    ELSE IF ~exists \/ ~loads THEN 0
    ELSE Min(k, MAX_WINDOWS - n)

\* everything but the ImageOpener and last_op
opener_rest == <<eye_fields, threads, procs, now, raising, monitors,
                 classified, session, eye_calls, eye_published, verdicts,
                 recent, all_false, stop_raised, series_start, series_last,
                 series_pubs, short_reset, ncalls, win_vars, afk_vars>>

\* the body of open_images(spawn_count=k), run by the caller `op`
open_images(k, exists, loads, op) ==
    /\ opened' = spawn_number(Len(image_windows), k, exists, loads)
    /\ image_windows' = image_windows \o Shown(opened')
    /\ last_op' = op
    /\ UNCHANGED <<open_timer, randomise_timer, orphans, opener_rest>>

\* open_images(spawn_count=k) called by the owner
OpenImages(k, exists, loads) == open_images(k, exists, loads, "open_images")

\* the timer of start_spam fires: open_images() with the default count
OpenTimerFires(exists, loads) ==
    /\ open_timer
    /\ open_images(1, exists, loads, "open_timeout")

\* close_images()
CloseImages ==
    /\ image_windows' = <<>>
    /\ last_op' = "close_images"
    /\ UNCHANGED <<open_timer, randomise_timer, orphans, opened, opener_rest>>

\* _randomise_positions(): drop the windows that are not visible, close the
\* others and open as many again
randomise_positions(exists, loads, op) ==
    /\ image_windows' =
         Shown(spawn_number(0, Len(Visible(image_windows)), exists, loads))
    /\ opened' = IF Len(Visible(image_windows)) > 0
                 THEN Len(image_windows') ELSE opened
    /\ last_op' = op
    /\ UNCHANGED <<open_timer, randomise_timer, orphans, opener_rest>>

\* _randomise_positions() called by the owner
RandomisePositions(exists, loads) ==
    randomise_positions(exists, loads, "randomise")

\* the second timer of start_spam fires
RandomiseTimerFires(exists, loads) ==
    /\ randomise_timer
    /\ randomise_positions(exists, loads, "randomise_timeout")

\* start_spam(): the list is replaced by an empty one, the windows it held
\* stay on the screen; both timers are created if they do not exist
StartSpam ==
    /\ orphans + Len(Visible(image_windows)) <= MaxOrphans
    /\ orphans' = orphans + Len(Visible(image_windows))
    /\ image_windows' = <<>>
    /\ open_timer' = TRUE
    /\ randomise_timer' = TRUE
    /\ last_op' = "start_spam"
    /\ UNCHANGED <<opened, opener_rest>>

\* stop_spam()
StopSpam ==
    /\ open_timer' = FALSE
    /\ randomise_timer' = FALSE
    /\ last_op' = "stop_spam"
    /\ UNCHANGED <<image_windows, orphans, opened, opener_rest>>

\* on_window_state_change(prev_state, curr_state, curr_title)
OnWindowStateChange(curr) ==
    IF curr = UNCLASSIFIED THEN StartSpam ELSE StopSpam

\* the user closes the tracked window i with its close button
UserCloses(i) ==
    /\ image_windows[i]
    /\ image_windows' = [image_windows EXCEPT ![i] = FALSE]
    /\ last_op' = "user_closes"
    /\ UNCHANGED <<open_timer, randomise_timer, orphans, opened, opener_rest>>

\* the user clicks into an image window: the event filter switches to
\* Anki, closes the tracked windows and stops the timers
Click ==
    /\ orphans > 0 \/ Visible(image_windows) # <<>>
    /\ image_windows' = <<>>
    /\ open_timer' = FALSE
    /\ randomise_timer' = FALSE
    /\ last_op' = "click"
    /\ UNCHANGED <<orphans, opened, opener_rest>>

InitOpener ==
    /\ EyeInit(<<>>, {}, 2)
    /\ addon_dir = Some("addon")
    /\ WinInit(<<>>)
    /\ monitors = {"opener"}

NextOpener ==
    \/ \E k \in SpawnCounts, exists \in BOOLEAN, loads \in BOOLEAN :
          OpenImages(k, exists, loads)
    \/ CloseImages
    \/ \E exists \in BOOLEAN, loads \in BOOLEAN :
          RandomisePositions(exists, loads)
    \/ \E curr \in {WHITELISTED, BLACKLISTED, UNCLASSIFIED} :
          OnWindowStateChange(curr)
    \/ \E exists \in BOOLEAN, loads \in BOOLEAN : OpenTimerFires(exists, loads)
    \/ \E exists \in BOOLEAN, loads \in BOOLEAN :
          RandomiseTimerFires(exists, loads)
    \/ \E i \in 1..Len(image_windows) : UserCloses(i)
    \/ Click

SpecOpener == InitOpener /\ [][NextOpener]_vars

(***************************************************************************)
(* afk_timer.py: AFKTimer.run() on the main thread, on_key() on the        *)
(* thread of the keyboard listener                                         *)
(***************************************************************************)
\* seconds between two spawns while the user stays away
RespawnAfter == 5

\* everything but the AFKTimer, the clock and last_op
afk_rest == <<eye_fields, threads, procs, raising, monitors, classified,
              session, eye_calls, eye_published, verdicts, recent, all_false,
              stop_raised, series_start, series_last, series_pubs,
              short_reset, ncalls, win_vars, opener_vars>>

\* on_key(key): the whole body runs with self.lock held, which excludes
\* only the statement of run() that reads last_activity
OnKey ==
    /\ IF was_afk /\ afk_start_time # None
       THEN /\ spawner_windows' = IF images_spawned THEN 0
                                  ELSE spawner_windows
            /\ was_afk' = FALSE
            /\ images_spawned' = FALSE
            /\ last_spawn_time' = None
            /\ afk_start_time' = None
       ELSE UNCHANGED <<spawner_windows, was_afk, images_spawned,
                        last_spawn_time, afk_start_time>>
    /\ last_activity' = now
    /\ key_handled' = TRUE
    /\ last_op' = "on_key"
    /\ UNCHANGED <<afk_threshold, image_count, afk_pc, afk_idle, now,
                   afk_rest>>

\* with self.lock: idle = now_ts() - self.last_activity
AfkPoll ==
    /\ afk_pc = "poll"
    /\ afk_idle' = now - last_activity
    /\ afk_pc' = "test"
    /\ last_op' = "afk_poll"
    /\ UNCHANGED <<afk_threshold, image_count, last_activity, was_afk,
                   images_spawned, afk_start_time, last_spawn_time,
                   spawner_windows, key_handled, now, afk_rest>>

\* if idle > self.afk_threshold: if not self.was_afk: self.was_afk = True
AfkTest ==
    /\ afk_pc = "test"
    /\ IF afk_idle > afk_threshold
       THEN IF ~was_afk
            THEN was_afk' = TRUE /\ afk_pc' = "set_start"
            ELSE UNCHANGED was_afk /\ afk_pc' = "decide"
       ELSE UNCHANGED was_afk /\ afk_pc' = "poll"
    /\ last_op' = "afk_test"
    /\ UNCHANGED <<afk_threshold, image_count, last_activity,
                   images_spawned, afk_start_time, last_spawn_time,
                   afk_idle, spawner_windows, key_handled, now, afk_rest>>

\* self.afk_start_time = self.last_activity
AfkSetStart ==
    /\ afk_pc = "set_start"
    /\ afk_start_time' = Some(last_activity)
    /\ afk_pc' = "decide"
    /\ last_op' = "afk_set_start"
    /\ UNCHANGED <<afk_threshold, image_count, last_activity, was_afk,
                   images_spawned, last_spawn_time, afk_idle,
                   spawner_windows, key_handled, now, afk_rest>>

\* should_spawn, and the test `should_spawn and open_images and
\* os.path.exists(self.image_path)`
AfkDecide(exists) ==
    /\ afk_pc = "decide"
    /\ IF ~images_spawned
          \/ (last_spawn_time # None
                /\ now - Val(last_spawn_time) >= RespawnAfter)
       THEN /\ last_spawn_time' = Some(now)
            /\ afk_pc' = IF exists THEN "spawn" ELSE "poll"
       ELSE /\ UNCHANGED last_spawn_time
            /\ afk_pc' = "poll"
    /\ last_op' = "afk_decide"
    /\ UNCHANGED <<afk_threshold, image_count, last_activity, was_afk,
                   images_spawned, afk_start_time, afk_idle,
                   spawner_windows, key_handled, now, afk_rest>>

\* success = open_images(self.image_path, spawn_count=self.image_count)
AfkSpawn(exists, loads) ==
    /\ afk_pc = "spawn"
    /\ IF exists /\ (loads \/ image_count <= 0)
       THEN /\ spawner_windows' = spawner_windows
                                    + (IF image_count > 0
                                       THEN Min(image_count, 20) ELSE 0)
            /\ afk_pc' = "mark"
       ELSE /\ UNCHANGED spawner_windows
            /\ afk_pc' = "poll"
    /\ last_op' = "afk_spawn"
    /\ UNCHANGED <<afk_threshold, image_count, last_activity, was_afk,
                   images_spawned, afk_start_time, last_spawn_time,
                   afk_idle, key_handled, now, afk_rest>>

\* self.images_spawned = True
AfkMark ==
    /\ afk_pc = "mark"
    /\ images_spawned' = TRUE
    /\ afk_pc' = "poll"
    /\ last_op' = "afk_mark"
    /\ UNCHANGED <<afk_threshold, image_count, last_activity, was_afk,
                   afk_start_time, last_spawn_time, afk_idle,
                   spawner_windows, key_handled, now, afk_rest>>

InitAfk ==
    /\ \E th \in AfkThresholds, count \in ImageCounts :
          EyeInitWith(<<>>, {}, 2, th, count)
    /\ addon_dir = None
    /\ WinInit(<<>>)
    /\ monitors = {"afk"}

NextAfk ==
    \/ Tick
    \/ OnKey
    \/ AfkPoll
    \/ AfkTest
    \/ AfkSetStart
    \/ \E exists \in BOOLEAN : AfkDecide(exists)
    \/ \E exists \in BOOLEAN, loads \in BOOLEAN : AfkSpawn(exists, loads)
    \/ AfkMark

SpecAfk == InitAfk /\ [][NextAfk]_vars

(***************************************************************************)
(* Properties                                                              *)
(***************************************************************************)
Last(q) == q[Len(q)]
Count(q, x) == Cardinality({i \in 1..Len(q) : q[i] = x})

\* C2: from a fresh start, once the reader has ingested five consecutive
\* 'false' samples (and while it ingests further ones) the subscribers have
\* received exactly one notification, and it signals CLOSED.
C2_FiveFalseNotifyOnce ==
    (Len(threads) = 1 /\ all_false /\ Len(recent) = 5)
        => /\ eye_published = <<TRUE>>
           /\ eye_calls = <<<<"A", TRUE>>, <<"B", TRUE>>>>

\* What the reader-driven monitor does instead: it never notifies at all,
\* because a verdict is forwarded once per change and the first True call
\* of on_eyes_state_change only starts the closure timer.
ReaderNeverNotifies == eye_published = <<>> /\ eye_calls = <<>>

\* C3: a line that leaves the five buffered samples mixed (or the buffer
\* short of five samples) forwards no verdict, changes no emitted state and
\* notifies no subscriber.
C3_MixedForwardsNothing ==
    [][(/\ last_op' = "line"
        /\ \/ Len(reading_buffer') < 5
           \/ /\ \E i \in 1..5 : reading_buffer'[i]
              /\ \E i \in 1..5 : ~reading_buffer'[i])
       => /\ verdicts' = verdicts
          /\ last_emitted_state' = last_emitted_state
          /\ eye_published' = eye_published
          /\ eye_calls' = eye_calls]_vars

C3_Witness ==
    /\ last_op = "line"
    /\ reading_buffer = <<TRUE, TRUE, TRUE, TRUE, FALSE>>
    /\ verdicts = <<>>
    /\ eye_calls = <<>>

\* C4: an OPEN verdict is forwarded, and the emitted state becomes OPEN,
\* only by a line that makes the last five samples all 'true'; while one of
\* the last five samples is 'false' the state set by a CLOSED verdict stays.
C4_OpenOnlyWhenUnanimous ==
    [][(\/ /\ Len(verdicts') > Len(verdicts)
           /\ ~verdicts'[Len(verdicts')]
        \/ /\ last_emitted_state' = Some(TRUE)
           /\ last_emitted_state # Some(TRUE))
       => /\ last_op' = "line"
          /\ Len(recent') = 5
          /\ \A i \in 1..5 : recent'[i]
          /\ reading_buffer' = recent'
          /\ Len(verdicts') = Len(verdicts) + 1
          /\ ~verdicts'[Len(verdicts')]]_vars

C4_Witness ==
    /\ verdicts = <<TRUE, FALSE>>
    /\ last_op = "line"
    /\ last_emitted_state = Some(TRUE)
    /\ recent = <<TRUE, TRUE, TRUE, TRUE, TRUE>>

\* C5: in a series of on_eyes_state_change(True) calls not interrupted by a
\* False call, the subscribers have been notified with True once if a call
\* of the series was made threshold_seconds or more after its first call,
\* and not at all otherwise.
C5_NotifiedOncePerSeries ==
    /\ series_start # None =>
         series_pubs = (IF Val(series_last) - Val(series_start)
                             >= threshold_seconds THEN 1 ELSE 0)
    /\ \A i \in 1..Len(eye_subscribers) :
         Count(eye_calls, <<eye_subscribers[i], TRUE>>)
           = Count(eye_published, TRUE)

C5_Witness ==
    /\ last_op = "call_true"
    /\ series_start # None
    /\ Val(series_last) - Val(series_start) > threshold_seconds
    /\ series_pubs = 1
    /\ eye_subscribers # <<>>

\* C6: a False call that ends a series of True calls shorter than
\* threshold_seconds notifies nobody and clears the closure timer, and the
\* timer of a running series is the time of that series' own first call.
C6_ShortClosureSilent ==
    /\ [](series_start # None => eyes_closed_start_time = series_start)
    /\ [][(/\ last_op' = "call_false"
           /\ ncalls' = ncalls + 1
           /\ series_start # None
           /\ Val(series_last) - Val(series_start) < threshold_seconds)
          => /\ eye_published' = eye_published
             /\ eye_calls' = eye_calls
             /\ eyes_closed_start_time' = None]_vars

C6_Witness ==
    /\ short_reset
    /\ last_op = "call_true"
    /\ series_start = Some(now)
    /\ now > 0
    /\ eye_published = <<>>

\* C10: stop() always ends with the worker terminated, the handle released,
\* the buffer cleared and the last emitted verdict reset, and never raises.
C10_StopAlwaysReleases ==
    last_op = "stop"
        => /\ ~stop_raised
           /\ vision_process = None
           /\ \A p \in 1..Len(procs) : procs[p] # "running"
           /\ reading_buffer = <<>>
           /\ last_emitted_state = None

(***************************************************************************)
(* WindowMonitor: transitions                                              *)
(***************************************************************************)
\* C1: every transition delivered to the subscribers of the WindowMonitor
\* has a previous label different from its current label; and a tick that
\* re-evaluates the window and computes the label of the last completed
\* evaluation produces no notification, so that the same label twice in a
\* row yields one transition and not two.
C1_TransitionsChangeLabel ==
    /\ [](/\ \A i \in 1..Len(win_published) :
                win_published[i].prev # win_published[i].curr
          /\ \A i \in 1..Len(win_calls) : win_calls[i][2] # win_calls[i][3])
    /\ [][(/\ last_op' = "win_tick"
           /\ win_evaluated'
           /\ Val(win_last_eval).completed
           /\ Val(win_last_eval').label = Val(win_last_eval).label)
             => (win_published' = win_published /\ win_calls' = win_calls)]_vars

\* a tick re-evaluated the window, found the label of the one transition
\* published so far, and published nothing
C1_Witness ==
    /\ last_op = "win_tick"
    /\ win_evaluated
    /\ Len(win_published) = 1
    /\ win_calls # <<>>
    /\ Val(win_last_eval).label = Last(win_published).curr
    /\ Val(win_last_eval).completed
    /\ ~Val(win_last_eval).published

\* C9: on a tick where the provider returns no window while the stored
\* label is WHITELISTED or BLACKLISTED, the monitor publishes a transition
\* to UNCLASSIFIED and stores UNCLASSIFIED.
C9_NoSnapshotIsUnclassified ==
    [][(/\ last_op' = "win_tick"
        /\ Val(win_seen').info = None
        /\ previous_state \in {Some(WHITELISTED), Some(BLACKLISTED)})
          => (/\ previous_state' = Some(UNCLASSIFIED)
              /\ Len(win_published') = Len(win_published) + 1
              /\ Last(win_published').prev = Val(previous_state)
              /\ Last(win_published').curr = UNCLASSIFIED)]_vars

(***************************************************************************)
(* Subscribers of both monitors                                            *)
(***************************************************************************)
\* the callbacks of the invocations q[from + 1 .. Len(q)]
NewCallbacks(q, from) == [i \in 1..(Len(q) - from) |-> q[from + i][1]]

NoDuplicates(q) == \A i, j \in 1..Len(q) : q[i] = q[j] => i = j

Registered(q, cb) == \E i \in 1..Len(q) : q[i] = cb

Without(q, cb) == SelectSeq(q, LAMBDA x : x # cb)

\* C7: on every publish of the WindowMonitor and of the EyeMonitor, every
\* subscriber is invoked once, in subscription order, also those after a
\* subscriber that raises; no exception leaves _notify_subscribers, the
\* publisher stores the published state and the timer keeps running.
C7_RaisingSubscriberIsolated ==
    /\ [][Len(win_published') = Len(win_published) + 1
            => (/\ NewCallbacks(win_calls', Len(win_calls)) = win_subscribers
                /\ \A i \in (Len(win_calls) + 1)..Len(win_calls') :
                       win_calls'[i] = <<win_calls'[i][1],
                                         Last(win_published').prev,
                                         Last(win_published').curr,
                                         Last(win_published').title>>
                /\ previous_state' = Some(Last(win_published').curr)
                /\ previous_window_handle' = handle_of(Val(win_seen').info)
                /\ running' = running)]_vars
    /\ [][Len(eye_published') = Len(eye_published) + 1
            => (/\ NewCallbacks(eye_calls', Len(eye_calls)) = eye_subscribers
                /\ \A i \in (Len(eye_calls) + 1)..Len(eye_calls') :
                       eye_calls'[i][2] = Last(eye_published')
                /\ current_state' = Last(eye_published')
                /\ ~notify_subscribers(eye_subscribers, raising).escaped)]_vars

\* the WindowMonitor published to <<A, B>>, A raising: B was invoked after
\* A and the new label is stored
C7_Witness ==
    /\ last_op = "win_tick"
    /\ win_subscribers = <<"A", "B">>
    /\ "A" \in raising
    /\ win_published # <<>>
    /\ Len(win_calls) >= 2
    /\ win_calls[Len(win_calls) - 1][1] = "A"
    /\ win_calls[Len(win_calls)][1] = "B"
    /\ win_calls[Len(win_calls)][3] = Last(win_published).curr
    /\ previous_state = Some(Last(win_published).curr)

\* the same with the EyeMonitor
C7_WitnessEye ==
    /\ last_op \in {"call_true", "call_false"}
    /\ eye_subscribers = <<"A", "B">>
    /\ "A" \in raising
    /\ eye_published # <<>>
    /\ Len(eye_calls) >= 2
    /\ eye_calls[Len(eye_calls) - 1] = <<"A", Last(eye_published)>>
    /\ eye_calls[Len(eye_calls)] = <<"B", Last(eye_published)>>
    /\ current_state = Last(eye_published)

\* C8: no subscriber list ever holds a callback twice: subscribe of a
\* registered callback and unsubscribe of an unregistered one leave the list
\* as it is, subscribe of a new callback appends it, unsubscribe keeps the
\* order of the others; and a publish invokes the registered callbacks in
\* the order of the list, which is the order of insertion.
C8_RegistryIdempotentOrdered ==
    /\ [](NoDuplicates(win_subscribers) /\ NoDuplicates(eye_subscribers))
    /\ [][ /\ last_op' = "win_subscribe" =>
               win_subscribers' =
                   IF Registered(win_subscribers, Val(last_arg'))
                   THEN win_subscribers
                   ELSE Append(win_subscribers, Val(last_arg'))
           /\ last_op' = "win_unsubscribe" =>
               win_subscribers' = Without(win_subscribers, Val(last_arg'))
           /\ last_op' = "eye_subscribe" =>
               eye_subscribers' =
                   IF Registered(eye_subscribers, Val(last_arg'))
                   THEN eye_subscribers
                   ELSE Append(eye_subscribers, Val(last_arg'))
           /\ last_op' = "eye_unsubscribe" =>
               eye_subscribers' = Without(eye_subscribers, Val(last_arg'))
           /\ last_op' \notin {"win_subscribe", "win_unsubscribe"} =>
               win_subscribers' = win_subscribers
           /\ last_op' \notin {"eye_subscribe", "eye_unsubscribe"} =>
               eye_subscribers' = eye_subscribers
           /\ Len(win_published') = Len(win_published) + 1 =>
               NewCallbacks(win_calls', Len(win_calls)) = win_subscribers'
           /\ Len(eye_published') = Len(eye_published) + 1 =>
               NewCallbacks(eye_calls', Len(eye_calls)) = eye_subscribers'
          ]_vars

\* A was subscribed before B, removed and subscribed again; the publish
\* that followed invoked B before A
C8_Witness ==
    /\ last_op = "win_tick"
    /\ win_subscribers = <<"B", "A">>
    /\ win_published # <<>>
    /\ Len(win_calls) >= 4
    /\ win_calls[1][1] = "A"
    /\ win_calls[2][1] = "B"
    /\ win_calls[Len(win_calls) - 1][1] = "B"
    /\ win_calls[Len(win_calls)][1] = "A"
    /\ win_calls[Len(win_calls)][3] = Last(win_published).curr

\* the same with the EyeMonitor
C8_WitnessEye ==
    /\ last_op \in {"call_true", "call_false"}
    /\ eye_subscribers = <<"B", "A">>
    /\ Len(eye_calls) >= 4
    /\ eye_calls[1][1] = "A"
    /\ eye_calls[2][1] = "B"
    /\ eye_calls[Len(eye_calls) - 1] = <<"B", Last(eye_published)>>
    /\ eye_calls[Len(eye_calls)] = <<"A", Last(eye_published)>>

(***************************************************************************)
(* Life cycle                                                              *)
(***************************************************************************)
\* C11: after EyeMonitor.stop() has returned, nothing of the session is
\* left: the reading buffer is empty, the last emitted verdict and the
\* closure timer are cleared and the debounced state is OPEN.
C11_StopResetsSession ==
    (last_op = "stop" /\ ~stop_raised)
        => /\ reading_buffer = <<>>
           /\ last_emitted_state = None
           /\ eyes_closed_start_time = None
           /\ current_state = FALSE

\* C20: stop() is safe in every state of both monitors: it never raises;
\* EyeMonitor.stop() before any start() leaves the monitor as constructed,
\* stop() directly after stop() changes nothing; WindowMonitor.stop()
\* leaves no timer and changes nothing when there is none.
C20_StopSafeEverywhere ==
    [][/\ last_op' = "stop" =>
           /\ ~stop_raised'
           /\ threads = <<>> =>
                  /\ ~is_monitoring'
                  /\ eyes_closed_start_time' = None
                  /\ current_state' = FALSE
                  /\ vision_process' = None
                  /\ reading_buffer' = <<>>
                  /\ last_emitted_state' = None
           /\ last_op = "stop" => (eye_fields' = eye_fields /\ procs' = procs)
       /\ last_op' = "win_stop" =>
           /\ timer' = None
           /\ timer = None => win_state' = win_state
           /\ win_published' = win_published
      ]_vars

(***************************************************************************)
(* WindowMonitor: what a tick re-evaluates                                 *)
(***************************************************************************)
\* the snapshot and the tab the provider gave to the latest start or tick
SeenInfo == Val(win_seen).info
SeenTab == Val(win_seen).tab

\* C12: a tick that finds a recognized browser with the stored handle and
\* a tab different from the stored tab re-classifies; a present tab decides
\* the label; if the label differs from the stored label exactly one
\* transition is published on that tick and the label is stored, otherwise
\* none; the tab is stored in both cases.
C12_TabSwitchReevaluates ==
    [][(/\ last_op' = "win_tick"
        /\ is_browser(SeenInfo')
        /\ handle_of(SeenInfo') = previous_window_handle
        /\ SeenTab' # previous_tab)
          => /\ win_evaluated'
             /\ tab_present(SeenTab') =>
                    Val(win_last_eval').label = tab_state(At(TabLabel, SeenTab'))
             /\ previous_tab' = SeenTab'
             /\ previous_window_handle' = previous_window_handle
             /\ IF Some(Val(win_last_eval').label) # previous_state
                THEN /\ Len(win_published') = Len(win_published) + 1
                     /\ Last(win_published').prev = Val(previous_state)
                     /\ Last(win_published').curr = Val(win_last_eval').label
                     /\ Len(win_calls') = Len(win_calls) + Len(win_subscribers)
                     /\ previous_state' = Some(Val(win_last_eval').label)
                ELSE /\ win_published' = win_published
                     /\ win_calls' = win_calls
                     /\ previous_state' = previous_state]_vars

\* a tab switch inside the same browser window was published
C12_Witness ==
    /\ last_op = "win_tick"
    /\ win_evaluated
    /\ is_browser(SeenInfo)
    /\ Val(win_last_eval).change_type = "Tab"
    /\ Val(win_last_eval).published
    /\ tab_present(SeenTab)
    /\ previous_tab = SeenTab
    /\ win_calls # <<>>
    /\ Last(win_published).curr = tab_state(At(TabLabel, SeenTab))
    /\ previous_state = Some(Last(win_published).curr)

C14_TickErrorsStayInside ==
    [][last_op' = "win_tick"
         => (/\ timer' = timer
             /\ running' = running
             /\ running' # {}
             /\ win_evaluated' => ~Val(win_last_eval').propagated)]_vars

\* a tick raised while it evaluated a window, and a later tick ran on another
\* snapshot with the timer still in place
C14_Witness ==
    /\ last_op = "win_tick"
    /\ ~win_evaluated
    /\ win_last_eval # None
    /\ ~Val(win_last_eval).completed
    /\ SeenInfo # None
    /\ timer # None
    /\ Val(timer) \in running

\* the monitor has just classified the pair (SeenInfo, SeenTab): in start(),
\* or in a tick that re-classified
JustClassified ==
    /\ win_last_eval # None
    /\ \/ last_op = "win_start"
       \/ last_op = "win_tick" /\ win_evaluated

\* C15: the label of a (window, tab) pair does not depend on the code path
\* that classifies it: whatever a tick computes for a pair is the label that
\* start() computes for the same pair with _classify_window.
C15_SameLabelOnEveryPath ==
    JustClassified
        => Val(win_last_eval).label = classify_window(SeenInfo, SeenTab)

\* C16: when a present tab classifies as 'unclassified', the label is the
\* one of the window title's keywords, in start() and in every tick that
\* classifies (the monitor's own process aside).
C16_UnclassifiedTabFallsBackToTitle ==
    (/\ JustClassified
     /\ SeenInfo # None
     /\ tab_present(SeenTab)
     /\ At(TabLabel, SeenTab) = "unclassified")
        => (\/ At(OwnProcess, Val(SeenInfo))
            \/ Val(win_last_eval).label = At(TitleState, Val(SeenInfo)))

\* C17: the browser window "reddit.com - Google Chrome" is BLACKLISTED with
\* the tab ("funny meme", https://reddit.com/r/foo) and WHITELISTED with a tab
\* on docs.google.com; the window "Notepad" without a tab is UNCLASSIFIED.
C17_EndToEndScenarios ==
    (JustClassified /\ SeenInfo # None)
        => (/\ (/\ Val(SeenInfo).title = "reddit.com - Google Chrome"
                /\ SeenTab = <<Some("funny meme"),
                               Some("https://reddit.com/r/foo")>>)
                  => Val(win_last_eval).label = BLACKLISTED
            /\ (/\ Val(SeenInfo).title = "reddit.com - Google Chrome"
                /\ SeenTab[2] = Some("https://docs.google.com/document/d/1"))
                  => Val(win_last_eval).label = WHITELISTED
            /\ (/\ Val(SeenInfo).title = "Notepad"
                /\ SeenTab = <<None, None>>)
                  => Val(win_last_eval).label = UNCLASSIFIED)

\* the label of the first rule that applies: wl, yt, bl, se tell whether the
\* host is a whitelist domain, the video host, a blacklist domain, a search
\* engine; work and nonwork whether the title has a keyword of that kind
RuleTable(wl, yt, bl, se, work, nonwork) ==
    CASE wl -> "whitelist"
      [] ~wl /\ yt -> (IF work THEN "whitelist" ELSE "blacklist")
      [] ~wl /\ ~yt /\ bl -> "blacklist"
      [] ~wl /\ ~yt /\ ~bl /\ se ->
            (IF work THEN "whitelist"
             ELSE IF nonwork THEN "blacklist" ELSE "unclassified")
      [] OTHER ->
            (IF work THEN "whitelist"
             ELSE IF nonwork THEN "blacklist" ELSE "unclassified")

\* RuleTable for a host and a title as classify(url, title) sees them
Expected(host, t) ==
    RuleTable(host # "" /\ host_in(host, WHITELIST_DOMAINS),
              host # "" /\ host_in(host, {"youtube.com"}),
              host # "" /\ host_in(host, BLACKLIST_DOMAINS),
              host # "" /\ host_in(host, SEARCH_ENGINE_DOMAINS),
              any_kw(t, WORK_TITLE_KEYWORDS),
              any_kw(t, NONWORK_TITLE_KEYWORDS))

\* C18: classify(url, title) is the label of the first rule that applies:
\* whitelist domain, then video host (work keyword or else blacklist), then
\* blacklist domain, then search engine (keywords or else unclassified),
\* then the title keywords alone, work keywords before non-work keywords.
C18_ClassifyIsRuleTable ==
    (classified # None /\ Val(classified).fn = "classify")
        => Val(classified).label
              = Expected(host_of(Val(classified).a),
                         title_of(Val(classified).b))

\* a host that is both a whitelist domain and a search-engine domain, with
\* a title that has a non-work keyword only, was classified as whitelist
C18_Witness ==
    /\ classified # None
    /\ Val(classified).fn = "classify"
    /\ host_in(host_of(Val(classified).a), WHITELIST_DOMAINS)
    /\ host_in(host_of(Val(classified).a), SEARCH_ENGINE_DOMAINS)
    /\ any_kw(title_of(Val(classified).b), NONWORK_TITLE_KEYWORDS)
    /\ ~any_kw(title_of(Val(classified).b), WORK_TITLE_KEYWORDS)
    /\ Val(classified).label = "whitelist"

\* C19: _classify_window returns WHITELISTED for every window whose process
\* is python.exe or pythonw.exe, whatever the tab and the title are.
C19_OwnProcessWhitelisted ==
    (/\ classified # None
     /\ Val(classified).fn = "_classify_window"
     /\ Val(classified).a # None
     /\ Lower(Val(Val(classified).a).process_name)
            \in {"python.exe", "pythonw.exe"})
        => Val(classified).label = WHITELISTED

\* a window of python.exe with a blacklist keyword in its title was
\* classified while the active tab was a blacklisted one
C19_Witness ==
    /\ classified # None
    /\ Val(classified).fn = "_classify_window"
    /\ Val(classified).a # None
    /\ Val(Val(classified).a).process_name = "python.exe"
    /\ At(TitleState, Val(Val(classified).a)) = BLACKLISTED
    /\ At(TabLabel, Val(classified).b) = "blacklist"
    /\ Val(classified).label = WHITELISTED

\* the reader forwarded a CLOSED verdict that started the closure timer early
\* enough for threshold_seconds to pass, and it is still reading the worker
ClosureTimed ==
    /\ is_monitoring
    /\ last_emitted_state = Some(FALSE)
    /\ eyes_closed_start_time # None
    /\ Val(eyes_closed_start_time) + threshold_seconds <= MaxTime
    /\ \E t \in 1..Len(threads) :
          threads[t].pc = "loop" /\ procs[threads[t].proc] = "running"

\* the closure ended: an open sample arrived, the monitor was stopped, or
\* no reader is reading a running worker any more
ClosureBroken ==
    \/ ~AllFalse(reading_buffer)
    \/ ~is_monitoring
    \/ \A t \in 1..Len(threads) :
          threads[t].pc # "loop" \/ procs[threads[t].proc] # "running"

\* C21: once the reader's verdict is CLOSED and the closure timer runs, the
\* subscribers are eventually notified with True unless the closure ends
\* first (a 'true' sample, stop(), or the end of the worker).
C21_SustainedClosureNotifies ==
    ClosureTimed ~> (Count(eye_published, TRUE) > 0 \/ ClosureBroken)

\* the reader threads that are in the loop over a running worker's output
Readers ==
    {t \in 1..Len(threads) :
        threads[t].pc = "loop" /\ procs[threads[t].proc] = "running"}

\* the worker processes that are running
LiveWorkers == {p \in 1..Len(procs) : procs[p] = "running"}

\* C22: whatever start() and stop() calls were made, at most one reader
\* thread reads a worker's output and at most one worker is running.
C22_SingleReader ==
    Cardinality(Readers) <= 1 /\ Cardinality(LiveWorkers) <= 1

\* a start() of this monitor failed to spawn its worker, and no start() of
\* it has spawned one
SpawnFailed ==
    /\ addon_dir # None
    /\ procs = <<>>
    /\ \E t \in 1..Len(threads) : threads[t].pc = "done"

\* C23: after a failed spawn the monitor is idle: the buffer is empty, no
\* verdict was forwarded, no subscriber was notified, no handle is stored,
\* and a stop() made then returns without raising.
C23_SpawnFailureLeavesIdle ==
    SpawnFailed
        => /\ reading_buffer = <<>>
           /\ last_emitted_state = None
           /\ verdicts = <<>>
           /\ eye_published = <<>>
           /\ eye_calls = <<>>
           /\ vision_process = None
           /\ ~stop_raised

\* stop() was called after the spawn had failed
C23_Witness ==
    /\ SpawnFailed
    /\ last_op = "stop"
    /\ ~is_monitoring
    /\ eye_subscribers # <<>>

\* C24: a reader thread that has returned stays returned, every worker was
\* spawned by the thread of its own start() call, and while no reader thread
\* is alive nothing but start() spawns a worker or ingests a sample.
C24_NoAutomaticRestart ==
    /\ [](Len(procs) <= Len(threads))
    /\ [][/\ \A t \in 1..Len(threads) :
               threads[t].pc = "done" => threads'[t].pc = "done"
          /\ (threads # <<>> /\ \A t \in 1..Len(threads) :
                                   threads[t].pc = "done")
                => (/\ last_op' \notin {"spawn", "line"}
                    /\ Len(procs') = Len(procs)
                    /\ verdicts' = verdicts
                    /\ recent' = recent
                    /\ reading_buffer' \in {reading_buffer, <<>>})]_vars

\* the worker ended by itself, its reader returned, and time went on with the
\* monitor still marked as monitoring and the dead worker's handle in place
C24_Witness ==
    /\ last_op = "tick"
    /\ is_monitoring
    /\ threads # <<>>
    /\ \A t \in 1..Len(threads) : threads[t].pc = "done"
    /\ vision_process # None
    /\ procs[Val(vision_process)] = "exited"
    /\ Len(procs) = Len(threads)

\* C25: a line that spells neither 'true' nor 'false' leaves the buffer as
\* it is, forwards no verdict, notifies nobody and leaves the reader in its
\* loop; the lines 'TRUE' and 'False' are appended as samples.
C25_NoiseLinesIgnored ==
    [][\A t \in 1..Len(threads) :
         /\ ThreadLine(t, "Error: eye\n")
              => /\ reading_buffer' = reading_buffer
                 /\ last_emitted_state' = last_emitted_state
                 /\ verdicts' = verdicts
                 /\ eye_published' = eye_published
                 /\ eye_calls' = eye_calls
                 /\ threads' = threads
         /\ ThreadLine(t, "TRUE\n")
              => reading_buffer' = deque_append(reading_buffer, TRUE)
         /\ ThreadLine(t, "False\n")
              => reading_buffer' = deque_append(reading_buffer, FALSE)]_vars

\* the reader has just taken a line and the buffer is still empty: the
\* line was no sample, and the reader is still in its loop
C25_Witness ==
    /\ last_op = "line"
    /\ reading_buffer = <<>>
    /\ recent = <<>>
    /\ is_monitoring
    /\ \E t \in 1..Len(threads) : threads[t].pc = "loop"

\* C27: after every tick the stored handle is the handle that tick saw, and
\* for a browser window the stored tab is the tab that tick saw.
C27_TrackingFollowsEveryTick ==
    last_op = "win_tick"
        => /\ previous_window_handle = handle_of(SeenInfo)
           /\ is_browser(SeenInfo) => previous_tab = SeenTab

\* the last stop() returned and start() has not been called since
Stopped == ~is_monitoring /\ ~stop_raised

\* C28: between a stop() that returned and the next start() no worker of
\* the monitor is running, and no step changes the buffer, the last emitted
\* verdict or the closure state.
C28_QuietAfterStop ==
    /\ [](Stopped => LiveWorkers = {})
    /\ [][(Stopped /\ last_op' \notin {"start", "stop"})
            => /\ reading_buffer' = reading_buffer
               /\ last_emitted_state' = last_emitted_state
               /\ eyes_closed_start_time' = eyes_closed_start_time
               /\ current_state' = current_state]_vars

\* the label of a window by the own-process rule and its title alone
WindowOnlyLabel(info) ==
    IF info = None THEN UNCLASSIFIED
    ELSE IF Lower(Val(info).process_name) \in {"python.exe", "pythonw.exe"}
    THEN WHITELISTED
    ELSE title_state(Val(info).title)

C29_DispatchCoversSnapshot ==
    [][Len(win_published') = Len(win_published) + 1
         => SelectSeq(NewCallbacks(win_calls', Len(win_calls)),
                      LAMBDA cb : Registered(win_subscribers, cb))
              = win_subscribers]_vars

\* C26: stop() is never held up by the monitor's own reader thread: the
\* owner can always run it to its end, and so can a subscriber callback
\* that the reader thread invokes.
C26_StopNeverWaitsForReader ==
    /\ ENABLED Stop
    /\ \A t \in 1..Len(threads) :
          Publishing(t, "False\n") => ENABLED ThreadLineStop(t, "False\n")

\* a callback on the reader thread called stop(); stop() returned and the
\* reader thread is still in its loop
C26_Witness ==
    /\ last_op = "line_stop"
    /\ ~is_monitoring
    /\ ~stop_raised
    /\ vision_process = None
    /\ Last(eye_published) = TRUE
    /\ \E t \in 1..Len(threads) : threads[t].pc = "loop"

\* _classify_window has just classified a window that is not a window of
\* the interpreter
ClassifiedWindow ==
    /\ classified # None
    /\ Val(classified).fn = "_classify_window"
    /\ Val(classified).a # None
    /\ ~At(OwnProcess, Val(Val(classified).a))

\* C31: when the active tab is present and classifies as whitelist or
\* blacklist, _classify_window returns that label whatever keywords the
\* window title carries.
C31_TabLabelBeforeTitle ==
    (/\ ClassifiedWindow
     /\ tab_present(Val(classified).b)
     /\ At(TabLabel, Val(classified).b) \in {"whitelist", "blacklist"})
        => Val(classified).label = tab_state(At(TabLabel, Val(classified).b))

\* a keyword of the set kws occurs in the lower-cased title
HasKeyword(title, kws) == \E kw \in kws : Contains(Lower(title), kw)

\* C32: when no tab label decides, the label of a window is BLACKLISTED if
\* its title has a blacklist keyword (with or without a whitelist keyword),
\* WHITELISTED if it has a whitelist keyword only, UNCLASSIFIED if neither.
C32_BlacklistKeywordsFirst ==
    (/\ ClassifiedWindow
     /\ \/ ~tab_present(Val(classified).b)
        \/ At(TabLabel, Val(classified).b) = "unclassified")
        => LET title == Val(Val(classified).a).title
           IN  Val(classified).label =
                 (IF HasKeyword(title, BLACKLIST) THEN BLACKLISTED
                  ELSE IF HasKeyword(title, WHITELIST) THEN WHITELISTED
                  ELSE UNCLASSIFIED)

\* a window whose title has a blacklist keyword and a whitelist keyword was
\* classified without a tab, as BLACKLISTED
C32_Witness ==
    /\ ClassifiedWindow
    /\ ~tab_present(Val(classified).b)
    /\ HasKeyword(Val(Val(classified).a).title, BLACKLIST)
    /\ HasKeyword(Val(Val(classified).a).title, WHITELIST)
    /\ Val(classified).label = BLACKLISTED

\* a missing or empty text
Blank(o) == o = None \/ o = Some("")

C33_WitnessWindow ==
    /\ ClassifiedWindow
    /\ Val(Val(classified).a).title = ""
    /\ ~tab_present(Val(classified).b)
    /\ Val(classified).label = UNCLASSIFIED

\* C40: when no domain rule and no title keyword matches, classify returns
\* 'whitelist'.
C40_DefaultIsWhitelist ==
    (/\ classified # None
     /\ Val(classified).fn = "classify"
     /\ Expected(host_of(Val(classified).a), title_of(Val(classified).b))
           = "unclassified"
     /\ ~host_in(host_of(Val(classified).a), SEARCH_ENGINE_DOMAINS))
        => Val(classified).label = "whitelist"

\* C34: the reading buffer never holds more than five samples; while the
\* monitor runs it holds exactly the latest (up to five) valid samples of
\* the current session; a verdict is forwarded only by a line that leaves
\* five samples in it.
C34_BufferIsSessionWindow ==
    /\ [](Len(reading_buffer) <= BufferLen)
    /\ [](is_monitoring => reading_buffer = session)
    /\ [][Len(verdicts') > Len(verdicts)
            => Len(reading_buffer') = BufferLen \/ last_op' = "line_stop"]_vars

\* a tick that publishes passes the title of the window it observed
TitleIsObserved ==
    [][Len(win_published') > Len(win_published)
         => /\ last_op' = "win_tick"
            /\ Last(win_published').title = Val(Val(win_seen').info).title
            /\ \A i \in (Len(win_calls) + 1)..Len(win_calls') :
                  win_calls'[i][4] = Val(Val(win_seen').info).title]_vars

\* a step that appends a transition to the published ones
Publishes == Len(win_published') > Len(win_published)

C36_VerdictsAlternate ==
    /\ [](Len(threads) <= 1
            => \A i \in 2..Len(verdicts) : verdicts[i] # verdicts[i - 1])
    /\ [][(/\ Len(threads) <= 1
           /\ last_op' = "line"
           /\ Len(reading_buffer) = BufferLen
           /\ \/ AllFalse(reading_buffer) /\ AllFalse(reading_buffer')
              \/ AllTrue(reading_buffer) /\ AllTrue(reading_buffer'))
             => verdicts' = verdicts]_vars

\* the single reader forwarded CLOSED and then, after five 'true' lines,
\* OPEN
C36_Witness ==
    /\ Len(threads) = 1
    /\ verdicts = <<TRUE, FALSE>>
    /\ last_op = "line"
    /\ reading_buffer = <<TRUE, TRUE, TRUE, TRUE, TRUE>>
    /\ last_emitted_state = Some(TRUE)
    /\ all_false = FALSE
    /\ \E t \in 1..Len(threads) : threads[t].pc = "loop"

\* the arguments with which the callback cb was invoked, in order
DeliveredTo(cb) ==
    LET mine == SelectSeq(eye_calls, LAMBDA c : c[1] = cb)
    IN  [i \in 1..Len(mine) |-> mine[i][2]]

\* a sequence of notifications that starts with True and alternates
Alternates(q) ==
    /\ q # <<>> => q[1] = TRUE
    /\ \A i \in 2..Len(q) : q[i] # q[i - 1]

\* C37: the notifications of the monitor, and the ones delivered to each
\* subscriber, alternate between True and False and start with True; the
\* monitor's state is the last one notified.
C37_NotificationsAlternate ==
    /\ Alternates(eye_published)
    /\ \A i \in 1..Len(eye_subscribers) :
          /\ Alternates(DeliveredTo(eye_subscribers[i]))
          /\ DeliveredTo(eye_subscribers[i]) = eye_published
    /\ current_state = (eye_published # <<>> /\ Last(eye_published))

\* a closure, an opening and a second closure were notified
C37_Witness ==
    /\ eye_published = <<TRUE, FALSE, TRUE>>
    /\ eye_subscribers # <<>>
    /\ current_state

\* C38: the opener never tracks more than MAX_WINDOWS windows; open_images
\* called while MAX_WINDOWS are tracked opens none; _randomise_positions
\* does not increase the number of tracked windows.
C38_WindowLimit ==
    /\ [](Len(image_windows) <= MAX_WINDOWS)
    /\ [][(/\ last_op' \in {"open_images", "open_timeout"}
           /\ Len(image_windows) = MAX_WINDOWS)
            => (image_windows' = image_windows /\ opened' = 0)]_vars
    /\ [][last_op' \in {"randomise", "randomise_timeout"}
            => Len(image_windows') <= Len(image_windows)]_vars

\* open_images was called while five windows were tracked and opened none
C38_Witness ==
    /\ Len(image_windows) = MAX_WINDOWS
    /\ last_op = "open_images"
    /\ opened = 0

\* the user is at the keyboard: the last key press is not older than the
\* threshold
UserActive == now - last_activity <= afk_threshold

\* C39: once a key press has been handled and while the user stays active
\* no spawned image window is open, and images_spawned is true only while
\* was_afk is true.
C39_ImagesOnlyWhileAway ==
    /\ (key_handled /\ UserActive) => spawner_windows = 0
    /\ images_spawned => was_afk

====
